---------------------------- MODULE Spec2Model ----------------------------
(***************************************************************************)
(* Verification model of the design-document pipeline:                     *)
(*   - Document Parser & Repair   (shared/utils/jsonRepair.ts)             *)
(*   - Variable/Token Index       (plugin/renderer/styleCache.ts)          *)
(*   - Resolver/Renderer          (plugin/renderer/{index,paints,          *)
(*                                 elements,fontLoader}.ts)                *)
(* Text is a sequence of one-character strings, so that slicing, trimming, *)
(* case folding and substring tests are computed as the code computes them.*)
(***************************************************************************)
EXTENDS Integers, Sequences, FiniteSets, TLC

VARIABLES
    \* --- Document Parser & Repair ---
    rawText,        \* the text handed to parseDesignJson
    srcValue,       \* the JSON value whose serialization rawText was cut from
    fenced,         \* TRUE when the serialization was wrapped in a ```json fence
    parseOutcome,   \* what parseDesignJson did with rawText
    \* --- host document (read surface) ---
    hostTextStyles,     \* local text styles, in the order the host lists them
    hostCollections,    \* variable collections with their variables, in order
    \* --- Variable/Token Index (module state of styleCache.ts) ---
    textStyleCache,
    colorVariableCache,
    spacingVariableCache,
    lookup,             \* the last find* call: function, name and result
    \* --- Renderer ---
    msgDesign,      \* the document (or the text element) last handed over
    msgViewport,    \* the requested viewport
    rendered,       \* what the last render did
    loadedFonts,    \* module state of styleCache.ts: keys of the fonts loaded
    hostFonts,      \* the fonts the host has loaded
    hostCalls,      \* the font calls of the last render, in order
    \* --- Provider adapter (one generation call) ---
    provider,       \* "claude" or "openai"
    response,       \* what fetch resolved to: ok, status, error text, body
    inFlight,       \* the rest of an event line whose start the last chunk carried
    sent,           \* the events whose lines the provider has started to send
    buffer,         \* the adapter's buffer
    fullText,       \* the adapter's fullText
    progress,       \* the values onProgress was called with, in order
    generation,     \* where the generation call is, and how it ended
    \* --- UI and plugin main (one session) ---
    isGenerating,   \* the UI's isGenerating state
    submits,        \* the handleSubmit calls, in order: where each is, how it ended
    toPlugin,       \* messages posted by the UI that the plugin has not received
    toUI,           \* messages sent by the plugin that the UI has not received
    handlers,       \* the plugin's message handlers suspended at an await
    answers,        \* per handleSubmit call: what its render request was answered
    hostLog,        \* what the renders did to the caches and the page, in order
    page,           \* figma.currentPage: its nodes and its selection
    ui,             \* the UI's selection, selectionData and streaming-message state
    \* --- Prompt Builder ---
    promptArgs,     \* the arguments of buildSystemPrompt
    systemPrompt,   \* the prompt it returned, as the sequence of its pieces
    \* --- Selection serializer ---
    selectionData,  \* what serializeSelection returned for the rendered root
    rerendered,     \* what the render of selectionData did
    \* --- Design-system extraction ---
    resolving,      \* a resolve*Value call: its locals and where it is
    extracted       \* what extractVariables returned

parseVars == <<rawText, srcValue, fenced, parseOutcome>>
streamVars == <<provider, response, inFlight, sent, buffer, fullText, progress, generation>>
sessionVars == <<isGenerating, submits, toPlugin, toUI, handlers, answers, hostLog, page, ui>>
promptVars == <<promptArgs, systemPrompt>>
roundTripVars == <<selectionData, rerendered>>
extractVars == <<resolving, extracted>>
pipelineVars == <<streamVars, sessionVars, promptVars, roundTripVars, extractVars>>
hostVars == <<hostTextStyles, hostCollections>>
cacheVars == <<textStyleCache, colorVariableCache, spacingVariableCache>>
renderVars == <<msgDesign, msgViewport, rendered, loadedFonts, hostFonts, hostCalls>>

----------------------------------------------------------------------------
(* Characters and text helpers (JavaScript String primitives).             *)

DQ == "\""
BS == "\\"
\* the backtick character (the lexer of TLA+ has no literal for it)
BT == "BACKTICK"
NL == "\n"

Digits == {"0", "1", "2", "3", "4", "5", "6", "7", "8", "9"}
WhiteSpace == {" ", "\n", "\t", "\r"}

\* String.prototype.slice(from) with a 0-based start
SliceFrom(s, from0) == SubSeq(s, from0 + 1, Len(s))

\* String.prototype.slice(from, to) with 0-based bounds, `to` exclusive
Slice(s, from0, to0) == SubSeq(s, from0 + 1, to0)

RECURSIVE TrimStart(_)
TrimStart(s) ==
    IF Len(s) > 0 /\ s[1] \in WhiteSpace THEN TrimStart(Tail(s)) ELSE s

RECURSIVE TrimEnd(_)
TrimEnd(s) ==
    IF Len(s) > 0 /\ s[Len(s)] \in WhiteSpace
    THEN TrimEnd(SubSeq(s, 1, Len(s) - 1)) ELSE s

\* String.prototype.trim
Trim(s) == TrimEnd(TrimStart(s))

\* TRUE when `pat` occurs in `s` starting at 0-based index i
MatchAt(s, pat, i0) ==
    /\ i0 + Len(pat) <= Len(s)
    /\ SubSeq(s, i0 + 1, i0 + Len(pat)) = pat

\* String.prototype.startsWith
StartsWith(s, pat) == MatchAt(s, pat, 0)

\* String.prototype.indexOf(pat, from): 0-based index, -1 when absent
IndexOfFrom(s, pat, from0) ==
    LET hits == {i \in from0..(Len(s) - Len(pat)) : MatchAt(s, pat, i)}
    IN  IF hits = {} THEN -1 ELSE CHOOSE i \in hits : \A j \in hits : i <= j

IndexOf(s, pat) == IndexOfFrom(s, pat, 0)

\* String.prototype.lastIndexOf(pat): 0-based index, -1 when absent
LastIndexOf(s, pat) ==
    LET hits == {i \in 0..(Len(s) - Len(pat)) : MatchAt(s, pat, i)}
    IN  IF hits = {} THEN -1 ELSE CHOOSE i \in hits : \A j \in hits : i >= j

\* String.prototype.includes
Includes(s, pat) == IndexOf(s, pat) # -1

----------------------------------------------------------------------------
(* JSON values.  An object keeps its members in insertion order.           *)

JStr(chars) == [t |-> "str", s |-> chars]
JNum(n) == [t |-> "num", n |-> n]
JLit(l) == [t |-> "lit", l |-> l]
JArr(items) == [t |-> "arr", a |-> items]
JObj(members) == [t |-> "obj", m |-> members]
JMember(key, val) == [k |-> key, v |-> val]
JUndefined == [t |-> "undefined"]

IsObj(v) == v.t = "obj"

\* `key in obj` for a parsed object
HasKey(v, key) == IsObj(v) /\ \E i \in 1..Len(v.m) : v.m[i].k = key

\* obj[key]: the last member stored under the key, undefined when absent
GetKey(v, key) ==
    IF HasKey(v, key)
    THEN LET hits == {i \in 1..Len(v.m) : v.m[i].k = key}
         IN  v.m[CHOOSE i \in hits : \A j \in hits : i >= j].v
    ELSE JUndefined

\* JavaScript truthiness of a JSON value
Truthy(v) ==
    CASE v.t = "str" -> Len(v.s) > 0
      [] v.t = "num" -> v.n # 0
      [] v.t = "lit" -> v.l = "true"
      [] v.t = "arr" -> TRUE
      [] v.t = "obj" -> TRUE
      [] OTHER -> FALSE


----------------------------------------------------------------------------
(* JSON.stringify: objects and arrays without whitespace, strings quoted   *)
(* with the quote, the backslash and the newline escaped, numbers decimal. *)

RECURSIVE NatToDigits(_)
NatToDigits(n) ==
    LET d == <<"0", "1", "2", "3", "4", "5", "6", "7", "8", "9">>[(n % 10) + 1]
    IN  IF n < 10 THEN <<d>> ELSE NatToDigits(n \div 10) \o <<d>>

RECURSIVE EscapeChars(_)
EscapeChars(s) ==
    IF s = <<>> THEN <<>>
    ELSE LET c == Head(s)
             e == IF c = DQ THEN <<BS, DQ>>
                  ELSE IF c = BS THEN <<BS, BS>>
                  ELSE IF c = NL THEN <<BS, "n">>
                  ELSE <<c>>
         IN  e \o EscapeChars(Tail(s))

QuoteString(s) == <<DQ>> \o EscapeChars(s) \o <<DQ>>

RECURSIVE Stringify(_), StringifyItems(_), StringifyMembers(_)
Stringify(v) ==
    CASE v.t = "str" -> QuoteString(v.s)
      [] v.t = "num" -> IF v.n < 0 THEN <<"-">> \o NatToDigits(-v.n)
                        ELSE NatToDigits(v.n)
      [] v.t = "lit" -> IF v.l = "true" THEN <<"t", "r", "u", "e">>
                        ELSE IF v.l = "false" THEN <<"f", "a", "l", "s", "e">>
                        ELSE <<"n", "u", "l", "l">>
      [] v.t = "arr" -> <<"[">> \o StringifyItems(v.a) \o <<"]">>
      [] v.t = "obj" -> <<"{">> \o StringifyMembers(v.m) \o <<"}">>

StringifyItems(items) ==
    IF items = <<>> THEN <<>>
    ELSE Stringify(Head(items))
         \o (IF Len(items) > 1 THEN <<",">> ELSE <<>>)
         \o StringifyItems(Tail(items))

StringifyMembers(members) ==
    IF members = <<>> THEN <<>>
    ELSE QuoteString(Head(members).k) \o <<":">> \o Stringify(Head(members).v)
         \o (IF Len(members) > 1 THEN <<",">> ELSE <<>>)
         \o StringifyMembers(Tail(members))

----------------------------------------------------------------------------
(* JSON.parse: a recursive-descent reading of the JSON grammar over the    *)
(* modelled alphabet (no fractions or exponents, no \u escapes).  Positions *)
(* are 1-based indices into the text; a result is [ok, val, pos] with pos  *)
(* the index after the value.                                              *)

JsonFail == [ok |-> FALSE, val |-> JUndefined, pos |-> 0]
JsonOk(v, p) == [ok |-> TRUE, val |-> v, pos |-> p]

RECURSIVE SkipWs(_, _)
SkipWs(s, i) ==
    IF i <= Len(s) /\ s[i] \in WhiteSpace THEN SkipWs(s, i + 1) ELSE i

JsonUnescape(c) ==
    CASE c = DQ -> DQ
      [] c = BS -> BS
      [] c = "/" -> "/"
      [] c = "n" -> "\n"
      [] c = "t" -> "\t"
      [] c = "r" -> "\r"
      [] OTHER -> "?"

RECURSIVE JsonStringBody(_, _, _)
JsonStringBody(s, j, acc) ==
    IF j > Len(s) THEN JsonFail
    ELSE IF s[j] = DQ THEN JsonOk(JStr(acc), j + 1)
    ELSE IF s[j] = BS
         THEN IF j + 1 > Len(s) \/ s[j + 1] \notin {DQ, BS, "/", "n", "t", "r"}
              THEN JsonFail
              ELSE JsonStringBody(s, j + 2, Append(acc, JsonUnescape(s[j + 1])))
    ELSE IF s[j] \in {"\n", "\t", "\r"} THEN JsonFail
    ELSE JsonStringBody(s, j + 1, Append(acc, s[j]))

DigitValue(c) == CHOOSE n \in 0..9 : NatToDigits(n) = <<c>>

RECURSIVE JsonDigits(_, _, _)
JsonDigits(s, j, acc) ==
    IF j <= Len(s) /\ s[j] \in Digits
    THEN JsonDigits(s, j + 1, acc * 10 + DigitValue(s[j]))
    ELSE [n |-> acc, pos |-> j]

\* -?(0|[1-9][0-9]*)
JsonNumber(s, i) ==
    LET neg == s[i] = "-"
        j == IF neg THEN i + 1 ELSE i
    IN  IF j > Len(s) \/ s[j] \notin Digits THEN JsonFail
        ELSE IF s[j] = "0" THEN JsonOk(JNum(0), j + 1)
        ELSE LET d == JsonDigits(s, j, 0)
             IN  JsonOk(JNum(IF neg THEN -d.n ELSE d.n), d.pos)

JsonLiteral(s, i) ==
    IF MatchAt(s, <<"t", "r", "u", "e">>, i - 1) THEN JsonOk(JLit("true"), i + 4)
    ELSE IF MatchAt(s, <<"f", "a", "l", "s", "e">>, i - 1) THEN JsonOk(JLit("false"), i + 5)
    ELSE IF MatchAt(s, <<"n", "u", "l", "l">>, i - 1) THEN JsonOk(JLit("null"), i + 4)
    ELSE JsonFail

RECURSIVE JsonValue(_, _), JsonItems(_, _, _), JsonMembers(_, _, _)
\* a value starting at or after position i (leading whitespace skipped)
JsonValue(s, i0) ==
    LET i == SkipWs(s, i0)
    IN  IF i > Len(s) THEN JsonFail
        ELSE IF s[i] = DQ THEN JsonStringBody(s, i + 1, <<>>)
        ELSE IF s[i] = "{"
             THEN LET j == SkipWs(s, i + 1)
                  IN  IF j <= Len(s) /\ s[j] = "}" THEN JsonOk(JObj(<<>>), j + 1)
                      ELSE JsonMembers(s, j, <<>>)
        ELSE IF s[i] = "["
             THEN LET j == SkipWs(s, i + 1)
                  IN  IF j <= Len(s) /\ s[j] = "]" THEN JsonOk(JArr(<<>>), j + 1)
                      ELSE JsonItems(s, j, <<>>)
        ELSE IF s[i] = "-" \/ s[i] \in Digits THEN JsonNumber(s, i)
        ELSE JsonLiteral(s, i)

\* value (, value)* ]
JsonItems(s, i, acc) ==
    LET r == JsonValue(s, i)
    IN  IF ~r.ok THEN JsonFail
        ELSE LET j == SkipWs(s, r.pos)
             IN  IF j > Len(s) THEN JsonFail
                 ELSE IF s[j] = "]" THEN JsonOk(JArr(Append(acc, r.val)), j + 1)
                 ELSE IF s[j] = "," THEN JsonItems(s, j + 1, Append(acc, r.val))
                 ELSE JsonFail

\* string : value (, string : value)* }
JsonMembers(s, i0, acc) ==
    LET i == SkipWs(s, i0)
    IN  IF i > Len(s) \/ s[i] # DQ THEN JsonFail
        ELSE LET k == JsonStringBody(s, i + 1, <<>>)
             IN  IF ~k.ok THEN JsonFail
                 ELSE LET c == SkipWs(s, k.pos)
                      IN  IF c > Len(s) \/ s[c] # ":" THEN JsonFail
                          ELSE LET r == JsonValue(s, c + 1)
                               IN  IF ~r.ok THEN JsonFail
                                   ELSE LET j == SkipWs(s, r.pos)
                                            m == Append(acc, JMember(k.val.s, r.val))
                                        IN  IF j > Len(s) THEN JsonFail
                                            ELSE IF s[j] = "}" THEN JsonOk(JObj(m), j + 1)
                                            ELSE IF s[j] = "," THEN JsonMembers(s, j + 1, m)
                                            ELSE JsonFail

\* JSON.parse(text): [ok, val]; ok = FALSE stands for the SyntaxError it throws
JsonParse(s) ==
    LET r == JsonValue(s, 1)
    IN  IF r.ok /\ SkipWs(s, r.pos) > Len(s)
        THEN [ok |-> TRUE, val |-> r.val]
        ELSE [ok |-> FALSE, val |-> JUndefined]

----------------------------------------------------------------------------
(* Document Parser & Repair.                                               *)

\* the variables of the scanning loops; i is the 0-based loop index
ScanStart ==
    [i |-> 0, last |-> -1, brace |-> 0, bracket |-> 0,
     inString |-> FALSE, escapeNext |-> FALSE]

\* one iteration of the loop of findLastCompleteIndex (lines 17-50)
LastCompleteStep(st, json) ==
    LET c == json[st.i + 1]
        nx == [st EXCEPT !.i = st.i + 1]
    IN  IF st.escapeNext THEN [nx EXCEPT !.escapeNext = FALSE]
        ELSE IF c = BS THEN [nx EXCEPT !.escapeNext = TRUE]
        ELSE IF c = DQ
             THEN [nx EXCEPT !.inString = ~st.inString,
                             !.last = IF st.inString THEN st.i ELSE st.last]
        ELSE IF st.inString THEN nx
        ELSE IF c = "{" THEN [nx EXCEPT !.brace = st.brace + 1]
        ELSE IF c = "}"
             THEN [nx EXCEPT !.brace = st.brace - 1,
                             !.last = IF st.brace - 1 >= 0 THEN st.i ELSE st.last]
        ELSE IF c = "[" THEN [nx EXCEPT !.bracket = st.bracket + 1]
        ELSE IF c = "]"
             THEN [nx EXCEPT !.bracket = st.bracket - 1,
                             !.last = IF st.bracket - 1 >= 0 THEN st.i ELSE st.last]
        ELSE IF c = "," \/ c = ":" THEN [nx EXCEPT !.last = st.i]
        ELSE IF c \in Digits THEN [nx EXCEPT !.last = st.i]
        ELSE nx

\* the loop run from index st.i up to (not including) index hi; the range is
\* halved so that the evaluation stays shallow on long texts
RECURSIVE LastCompleteLoop(_, _, _)
LastCompleteLoop(json, hi, st) ==
    IF st.i >= hi THEN st
    ELSE IF st.i + 1 = hi THEN LastCompleteStep(st, json)
    ELSE LastCompleteLoop(json, hi, LastCompleteLoop(json, (st.i + hi) \div 2, st))

\* the 0-based index of the last character that completes a value, -1 if none
findLastCompleteIndex(json) == LastCompleteLoop(json, Len(json), ScanStart).last

\* one iteration of the counting loop of repairTruncatedJson (lines 73-92)
CountStep(st, json) ==
    LET c == json[st.i + 1]
        nx == [st EXCEPT !.i = st.i + 1]
    IN  IF st.escapeNext THEN [nx EXCEPT !.escapeNext = FALSE]
        ELSE IF c = BS THEN [nx EXCEPT !.escapeNext = TRUE]
        ELSE IF c = DQ THEN [nx EXCEPT !.inString = ~st.inString]
        ELSE IF st.inString THEN nx
        ELSE IF c = "{" THEN [nx EXCEPT !.brace = st.brace + 1]
        ELSE IF c = "}" THEN [nx EXCEPT !.brace = st.brace - 1]
        ELSE IF c = "[" THEN [nx EXCEPT !.bracket = st.bracket + 1]
        ELSE IF c = "]" THEN [nx EXCEPT !.bracket = st.bracket - 1]
        ELSE nx

RECURSIVE CountLoop(_, _, _)
CountLoop(json, hi, st) ==
    IF st.i >= hi THEN st
    ELSE IF st.i + 1 = hi THEN CountStep(st, json)
    ELSE CountLoop(json, hi, CountLoop(json, (st.i + hi) \div 2, st))

\* json.replace(/,\s*$/, '')
StripTrailingComma(json) ==
    LET t == TrimEnd(json)
    IN  IF Len(t) > 0 /\ t[Len(t)] = "," THEN SubSeq(t, 1, Len(t) - 1) ELSE json

Repeat(c, n) == [i \in 1..(IF n > 0 THEN n ELSE 0) |-> c]

repairTruncatedJson(text) ==
    LET trimmed == Trim(text)
        lastCompleteIndex == findLastCompleteIndex(trimmed)
        cut == IF lastCompleteIndex > 0 /\ lastCompleteIndex < Len(trimmed) - 1
               THEN Slice(trimmed, 0, lastCompleteIndex + 1)
               ELSE trimmed
        st == CountLoop(cut, Len(cut), ScanStart)
        closedString == IF st.inString THEN cut \o <<DQ>> ELSE cut
        noComma == StripTrailingComma(closedString)
    IN  noComma \o Repeat("]", st.bracket) \o Repeat("}", st.brace)

Fence == <<BT, BT, BT>>

\* jsonText.match(/```(?:json)?\s*([\s\S]*?)```/): the captured group, or no match
FenceMatch(jsonText) ==
    LET afterOpen == 3
        afterJson == IF MatchAt(jsonText, <<"j", "s", "o", "n">>, afterOpen)
                     THEN afterOpen + 4 ELSE afterOpen
        bodyStart == SkipWs(jsonText, afterJson + 1) - 1
        close == IndexOfFrom(jsonText, Fence, bodyStart)
    IN  IF close = -1 THEN [matched |-> FALSE, group |-> <<>>]
        ELSE [matched |-> TRUE, group |-> Slice(jsonText, bodyStart, close)]

\* the text that parseDesignJson hands to JSON.parse (lines 120-139)
ExtractJsonText(text) ==
    LET trimmed == Trim(text)
        m == FenceMatch(trimmed)
        unfenced == IF StartsWith(trimmed, Fence) /\ m.matched
                    THEN Trim(m.group) ELSE trimmed
        firstBrace == IndexOf(unfenced, <<"{">>)
        lastBrace == LastIndexOf(unfenced, <<"}">>)
    IN  IF firstBrace # -1 /\ lastBrace # -1 THEN Slice(unfenced, firstBrace, lastBrace + 1)
        ELSE IF firstBrace # -1 THEN SliceFrom(unfenced, firstBrace)
        ELSE unfenced

Returned(v, how) == [kind |-> "returned", value |-> v, via |-> how, error |-> "none"]
Threw(e) == [kind |-> "threw", value |-> JUndefined, via |-> "none", error |-> e]
NotParsed == [kind |-> "none", value |-> JUndefined, via |-> "none", error |-> "none"]

\* `parsed.name || parsed.children` : reading a property of null throws a TypeError
NameOrChildren(parsed) ==
    IF parsed = JLit("null") THEN "TypeError"
    ELSE IF Truthy(GetKey(parsed, <<"n", "a", "m", "e">>))
            \/ Truthy(GetKey(parsed, <<"c", "h", "i", "l", "d", "r", "e", "n">>))
         THEN "yes" ELSE "no"

\* a variant of the block that returns whatever the repaired text parses to
SecondAttemptUnchecked(jsonText) ==
    LET parsed == JsonParse(repairTruncatedJson(jsonText))
    IN  IF ~parsed.ok THEN Threw("SyntaxError")
        ELSE Returned(parsed.val, "repair")

\* the body of the second try block (lines 153-161), with what it throws
SecondAttemptBody(jsonText) ==
    LET parsed == JsonParse(repairTruncatedJson(jsonText))
    IN  IF ~parsed.ok THEN Threw("SyntaxError")
        ELSE IF NameOrChildren(parsed.val) = "TypeError" THEN Threw("TypeError")
        ELSE IF NameOrChildren(parsed.val) = "no" THEN Threw("InvalidDesignStructure")
        ELSE Returned(parsed.val, "repair")

\* lines 152-166: every exception of the block is caught and replaced by the
\* parse error
SecondAttempt(jsonText) ==
    LET r == SecondAttemptBody(jsonText)
    IN  IF r.kind = "threw" THEN Threw("ParseError") ELSE r

\* lines 119-167; the first try block swallows whatever it throws
parseDesignJson(text) ==
    LET jsonText == ExtractJsonText(text)
        parsed == JsonParse(jsonText)
    IN  IF parsed.ok /\ NameOrChildren(parsed.val) = "yes"
        THEN Returned(parsed.val, "strict")
        ELSE SecondAttempt(jsonText)

----------------------------------------------------------------------------
(* Inputs of the parser: serialized JSON values, whole or cut at a prefix. *)

MaxChildren == 1
MobileWidth == 375

kName == <<"n", "a", "m", "e">>
kChildren == <<"c", "h", "i", "l", "d", "r", "e", "n">>
kType == <<"t", "y", "p", "e">>
kCharacters == <<"c", "h", "a", "r", "a", "c", "t", "e", "r", "s">>
kWidth == <<"w", "i", "d", "t", "h">>
kClipsContent == <<"c", "l", "i", "p", "s", "C", "o", "n", "t", "e", "n", "t">>
sTEXT == <<"T", "E", "X", "T">>
sHello == <<"H", "e", "l", "l", "o">>
sHel == <<"H", "e", "l">>
sX == <<"X">>
sBraced == <<"a", "}", "b">>

TextElement(chars) == JObj(<<JMember(kType, JStr(sTEXT)), JMember(kCharacters, JStr(chars))>>)

\* a design document: name, optionally width and clipsContent, n TEXT children
DesignValue(name, withWidth, n) ==
    JObj(<<JMember(kName, JStr(name))>>
         \o (IF withWidth
             THEN <<JMember(kWidth, JNum(MobileWidth)), JMember(kClipsContent, JLit("true"))>>
             ELSE <<>>)
         \o <<JMember(kChildren, JArr([i \in 1..n |-> TextElement(sHello)]))>>)

DesignValues ==
    {DesignValue(name, w, n) : name \in {sX, sBraced}, w \in BOOLEAN, n \in 0..MaxChildren}

\* JSON values that are no design document: neither name nor children
OtherValues ==
    { TextElement(sHello),
      JObj(<<JMember(kName, JStr(<<>>))>>),
      JObj(<<JMember(kWidth, JNum(MobileWidth))>>),
      JArr(<<JNum(1)>>),
      JLit("null") }

ParseValues == DesignValues \union OtherValues

\* the raw text of the truncated-stream scenario and the document expected from it
ScenarioDoc == DesignValue(sX, FALSE, 1)
ScenarioText == SubSeq(Stringify(ScenarioDoc), 1, 56)
ScenarioRepaired == Stringify(JObj(<<JMember(kName, JStr(sX)),
                                    JMember(kChildren, JArr(<<TextElement(sHel)>>))>>))

InFence(s) == Fence \o <<"j", "s", "o", "n", NL>> \o s \o <<NL>> \o Fence

----------------------------------------------------------------------------
(* Variable/Token Index: styleCache.ts.  A Map is the sequence of its      *)
(* entries in insertion order; a cache that was never built is null.       *)

UpperLetters == <<"A", "B", "C", "D", "E", "F", "G", "H", "I", "J", "K", "L", "M",
                  "N", "O", "P", "Q", "R", "S", "T", "U", "V", "W", "X", "Y", "Z">>
LowerLetters == <<"a", "b", "c", "d", "e", "f", "g", "h", "i", "j", "k", "l", "m",
                  "n", "o", "p", "q", "r", "s", "t", "u", "v", "w", "x", "y", "z">>

LowerChar(c) ==
    IF \E i \in 1..26 : UpperLetters[i] = c
    THEN LowerLetters[CHOOSE i \in 1..26 : UpperLetters[i] = c]
    ELSE c

\* String.prototype.toLowerCase
ToLowerCase(s) == [i \in 1..Len(s) |-> LowerChar(s[i])]

NullCache == [ready |-> FALSE, entries |-> <<>>]
EmptyMap == [ready |-> TRUE, entries |-> <<>>]

MapHas(map, key) == \E i \in 1..Len(map.entries) : map.entries[i].key = key
MapGet(map, key) == map.entries[CHOOSE i \in 1..Len(map.entries) : map.entries[i].key = key].val

\* Map.prototype.set: a present key keeps its place, a new key goes last
MapSet(map, key, val) ==
    IF MapHas(map, key)
    THEN [map EXCEPT !.entries =
             [i \in 1..Len(map.entries) |->
                 IF map.entries[i].key = key THEN [key |-> key, val |-> val]
                 ELSE map.entries[i]]]
    ELSE [map EXCEPT !.entries = Append(map.entries, [key |-> key, val |-> val])]

\* style.name.split('/').pop() || style.name
SimpleName(name) ==
    LET slash == LastIndexOf(name, <<"/">>)
        tail == SliceFrom(name, slash + 1)
    IN  IF tail = <<>> THEN name ELSE tail

\* lines 16-29: the text style cache after the loop over the first n styles
RECURSIVE CacheTextStyles(_, _)
CacheTextStyles(styles, n) ==
    IF n = 0 THEN EmptyMap
    ELSE LET before == CacheTextStyles(styles, n - 1)
             style == styles[n]
             named == MapSet(before, style.name, style)
         IN  IF ~MapHas(named, SimpleName(style.name))
             THEN MapSet(named, SimpleName(style.name), style)
             ELSE named

\* lines 41-48 for one variable of one collection
CacheVariable(map, collection, variable) ==
    MapSet(MapSet(map, variable.name, variable),
           collection.name \o <<"/">> \o variable.name, variable)

RECURSIVE CacheVariablesOf(_, _, _, _)
CacheVariablesOf(map, collection, type, n) ==
    IF n = 0 THEN map
    ELSE LET before == CacheVariablesOf(map, collection, type, n - 1)
             variable == collection.variables[n]
         IN  IF variable.resolvedType = type
             THEN CacheVariable(before, collection, variable)
             ELSE before

\* lines 32-50: the cache of the variables of one resolved type
RECURSIVE CacheVariables(_, _, _)
CacheVariables(collections, type, n) ==
    IF n = 0 THEN EmptyMap
    ELSE CacheVariablesOf(CacheVariables(collections, type, n - 1),
                          collections[n], type, Len(collections[n].variables))

\* initializeCaches: the three caches it leaves; a host call that throws is
\* caught and leaves the cache it was filling empty
initializeCaches(styles, collections, faults) ==
    [ textStyles |-> IF faults.styles THEN EmptyMap
                     ELSE CacheTextStyles(styles, Len(styles)),
      colors |-> IF faults.variables THEN EmptyMap
                 ELSE CacheVariables(collections, "COLOR", Len(collections)),
      spacing |-> IF faults.variables THEN EmptyMap
                  ELSE CacheVariables(collections, "FLOAT", Len(collections)) ]

NotFound == [found |-> FALSE, key |-> <<>>]
FoundKey(k) == [found |-> TRUE, key |-> k]

\* the first entry, in insertion order, whose key satisfies Test
FirstKey(map, Test(_)) ==
    LET hits == {i \in 1..Len(map.entries) : Test(map.entries[i].key)}
    IN  IF hits = {} THEN NotFound
        ELSE FoundKey(map.entries[CHOOSE i \in hits : \A j \in hits : i <= j].key)

\* exact, then case-insensitive, then partial match in either direction: the
\* key under which the value is found (lines 57-81 and 84-108)
FlexibleFind(map, name) ==
    LET nameLower == ToLowerCase(name)
        SameFolded(key) == ToLowerCase(key) = nameLower
        Partial(key) == \/ Includes(ToLowerCase(key), nameLower)
                        \/ Includes(nameLower, ToLowerCase(key))
    IN  IF ~map.ready THEN NotFound
        ELSE IF MapHas(map, name) THEN FoundKey(name)
        ELSE IF FirstKey(map, SameFolded).found THEN FirstKey(map, SameFolded)
        ELSE FirstKey(map, Partial)

findTextStyleKey(map, name) == FlexibleFind(map, name)

findColorVariableKey(map, name) == FlexibleFind(map, name)

\* lines 111-126: exact, then one pass that accepts a key equal to the name or
\* containing it, case-insensitively
findSpacingVariableKey(map, name) ==
    LET nameLower == ToLowerCase(name)
        EqualOrContains(key) == \/ ToLowerCase(key) = nameLower
                                \/ Includes(ToLowerCase(key), nameLower)
    IN  IF ~map.ready THEN NotFound
        ELSE IF MapHas(map, name) THEN FoundKey(name)
        ELSE FirstKey(map, EqualOrContains)

\* the value a find returns: the entry stored under the key, or null
NullValue == [isNull |-> TRUE]
ValueAt(map, hit) == IF hit.found THEN MapGet(map, hit.key) ELSE NullValue

findTextStyle(map, name) == ValueAt(map, findTextStyleKey(map, name))
findColorVariable(map, name) == ValueAt(map, findColorVariableKey(map, name))
findSpacingVariable(map, name) == ValueAt(map, findSpacingVariableKey(map, name))

----------------------------------------------------------------------------
(* The host document as the renderer sees it.  Numbers that the source     *)
(* writes as fractions of one (colour channels, opacities) are counted in  *)
(* tenths.  A node is the record of its properties; the layout properties  *)
(* of a frame are in its domain once the renderer has assigned them.       *)

Has(props, field) == field \in DOMAIN props

\* an assignment  node.field = value
Set(node, field, value) ==
    [f \in DOMAIN node \union {field} |-> IF f = field THEN value ELSE node[f]]

\* the properties of props and of more; props wins where both have one
Merge(props, more) ==
    [f \in DOMAIN props \union DOMAIN more |-> IF f \in DOMAIN props THEN props[f] ELSE more[f]]

Absent == <<>>

\* a property that is present and truthy: a string, a name, a number
TruthyStr(props, field) == Has(props, field) /\ props[field] # ""
TruthyName(props, field) == Has(props, field) /\ props[field] # <<>>
TruthyNum(props, field) == Has(props, field) /\ props[field] # 0

\* the paint a new node carries before the renderer touches it
HostPaint == [type |-> "SOLID", hostDefault |-> TRUE]

Rgb(r, g, b) == [r |-> r, g |-> g, b |-> b]
Gray == Rgb(5, 5, 5)
Black == Rgb(0, 0, 0)

\* the values a variable stores for a mode
ColorValue(c) == [kind |-> "color", color |-> c]
AliasValue(id) == [kind |-> "alias", id |-> id]
NumberValue(n) == [kind |-> "number", n |-> n]
UndefinedValue == [kind |-> "undefined"]

\* variable.valuesByMode[Object.keys(variable.valuesByMode)[0]]
FirstModeValue(variable) ==
    IF Len(variable.valuesByMode) = 0 THEN UndefinedValue ELSE variable.valuesByMode[1]

HostVariables(collections) ==
    UNION {{collections[i].variables[j] : j \in 1..Len(collections[i].variables)} :
              i \in 1..Len(collections)}

\* figma.variables.getVariableById
getVariableById(collections, id) ==
    IF \E v \in HostVariables(collections) : v.id = id
    THEN CHOOSE v \in HostVariables(collections) : v.id = id
    ELSE NullValue

\* figma.createFrame, createRectangle, createEllipse, createLine, createText
CreateNode(type) ==
    [type |-> type, name |-> "", fills |-> <<HostPaint>>, strokes |-> <<>>,
     effects |-> <<>>, children |-> <<>>]

\* node.resize(width, height)
Resize(node, width, height) == Set(Set(node, "width", width), "height", height)

\* toRGB: the colour without its alpha
toRGB(color) == Rgb(color.r, color.g, color.b)

\* getOpacity and getStrokeOpacity
getOpacity(fill) ==
    IF Has(fill, "opacity") THEN fill.opacity
    ELSE IF Has(fill, "color") /\ Has(fill.color, "a") THEN fill.color.a
    ELSE 10

SolidPaint(color, opacity) == [type |-> "SOLID", color |-> color, opacity |-> opacity]

\* node.setBoundVariable('fills', index, 'color', variable)
BindFill(fills, index, variable) ==
    [i \in 1..Len(fills) |->
        IF i = index THEN Set(fills[i], "boundVariable", variable.id) ELSE fills[i]]

\* lines 131-158 of convertFillWithVariable: the literal colour, a linear
\* gradient, or nothing
LiteralFill(fill) ==
    IF Has(fill, "color") THEN SolidPaint(toRGB(fill.color), getOpacity(fill))
    ELSE IF Has(fill, "type") /\ fill.type = "GRADIENT_LINEAR" /\ Has(fill, "gradientStops")
    THEN [type |-> "GRADIENT_LINEAR",
          gradientStops |->
              [i \in 1..Len(fill.gradientStops) |->
                  [position |-> fill.gradientStops[i].position,
                   color |-> [r |-> fill.gradientStops[i].color.r,
                              g |-> fill.gradientStops[i].color.g,
                              b |-> fill.gradientStops[i].color.b,
                              a |-> IF Has(fill.gradientStops[i].color, "a")
                                    THEN fill.gradientStops[i].color.a ELSE 10]]],
          gradientTransform |-> <<<<1, 0, 0>>, <<0, 1, 0>>>>]
    ELSE NullValue

\* convertFillWithVariable: the node as the call leaves it and the paint it
\* returns; bindFails tells whether setBoundVariable throws
convertFillWithVariable(node, fill, colors, bindFails) ==
    LET paint == SolidPaint(Gray, getOpacity(fill))
        \* lines 88-124, with the variable found and the fills after the push
        Bound(variable, currentFills, colorValue) ==
            IF ~bindFails
            THEN [node |-> Set(node, "fills",
                               BindFill(currentFills, Len(currentFills), variable)),
                  paint |-> NullValue]
            ELSE [node |-> Set(node, "fills", currentFills),
                  paint |-> IF colorValue.kind = "color"
                            THEN SolidPaint(toRGB(colorValue.color), getOpacity(fill))
                            ELSE LiteralFill(fill)]
        Converted(variable) ==
            IF variable # NullValue
            THEN Bound(variable, Append(node.fills, paint), FirstModeValue(variable))
            ELSE [node |-> node, paint |-> LiteralFill(fill)]
    IN  IF Has(fill, "visible") /\ fill.visible = FALSE
        THEN [node |-> node, paint |-> NullValue]
        ELSE IF TruthyName(fill, "colorVariable")
        THEN Converted(findColorVariable(colors, fill.colorVariable))
        ELSE [node |-> node, paint |-> LiteralFill(fill)]

\* convertStrokeWithVariable: the paint it returns
convertStrokeWithVariable(stroke, colors) ==
    LET literal == IF Has(stroke, "color")
                   THEN SolidPaint(toRGB(stroke.color), getOpacity(stroke))
                   ELSE NullValue
        Stored(colorValue) ==
            IF colorValue.kind = "color"
            THEN SolidPaint(toRGB(colorValue.color), getOpacity(stroke))
            ELSE literal
        Converted(variable) ==
            IF variable # NullValue THEN Stored(FirstModeValue(variable)) ELSE literal
    IN  IF TruthyName(stroke, "colorVariable")
        THEN Converted(findColorVariable(colors, stroke.colorVariable))
        ELSE literal

\* effect.field ?? fallback
OrElse(props, field, fallback) == IF Has(props, field) THEN props[field] ELSE fallback

\* convertEffect
convertEffect(effect) ==
    IF Has(effect, "visible") /\ effect.visible = FALSE THEN NullValue
    ELSE IF effect.type = "DROP_SHADOW" /\ Has(effect, "color")
    THEN [type |-> "DROP_SHADOW", color |-> effect.color,
          offset |-> OrElse(effect, "offset", [x |-> 0, y |-> 4]),
          radius |-> OrElse(effect, "radius", 8), spread |-> OrElse(effect, "spread", 0),
          visible |-> TRUE, blendMode |-> "NORMAL"]
    ELSE IF effect.type = "INNER_SHADOW" /\ Has(effect, "color")
    THEN [type |-> "INNER_SHADOW", color |-> effect.color,
          offset |-> OrElse(effect, "offset", [x |-> 0, y |-> 2]),
          radius |-> OrElse(effect, "radius", 4), spread |-> OrElse(effect, "spread", 0),
          visible |-> TRUE, blendMode |-> "NORMAL"]
    ELSE IF effect.type = "LAYER_BLUR"
    THEN [type |-> "LAYER_BLUR", radius |-> OrElse(effect, "radius", 4), visible |-> TRUE]
    ELSE IF effect.type = "BACKGROUND_BLUR"
    THEN [type |-> "BACKGROUND_BLUR", radius |-> OrElse(effect, "radius", 10),
          visible |-> TRUE]
    ELSE NullValue

\* effects.map(e => convertEffect(e)).filter(Boolean)
RECURSIVE ConvertEffects(_, _)
ConvertEffects(effects, n) ==
    IF n = 0 THEN <<>>
    ELSE LET before == ConvertEffects(effects, n - 1)
             Kept(effect) == IF effect = NullValue THEN before ELSE Append(before, effect)
         IN  Kept(convertEffect(effects[n]))

----------------------------------------------------------------------------
(* Frames: resolveSpacingVariable and applyFrameProperties (elements.ts).  *)
(* env carries what the renderer reads: the three caches, the host's       *)
(* collections and the host calls that fail.                               *)

MaxAliasDepth == 10

Unresolved == [resolved |-> FALSE]
ResolvedTo(n) == [resolved |-> TRUE, n |-> n]

\* lines 24-32: the value at the end of the alias chain
RECURSIVE FollowAlias(_, _, _)
FollowAlias(value, depth, collections) ==
    IF value.kind = "alias" /\ depth < MaxAliasDepth
    THEN LET aliasedVar == getVariableById(collections, value.id)
         IN  IF aliasedVar = NullValue THEN value
             ELSE FollowAlias(FirstModeValue(aliasedVar), depth + 1, collections)
    ELSE value

resolveSpacingVariable(variableName, env) ==
    LET Number(value) == IF value.kind = "number" THEN ResolvedTo(value.n) ELSE Unresolved
        Resolved(variable) ==
            IF variable = NullValue THEN Unresolved
            ELSE Number(FollowAlias(FirstModeValue(variable), 0, env.collections))
    IN  Resolved(findSpacingVariable(env.spacing, variableName))

\* the loop over props.fills: the node and the paints collected so far
RECURSIVE FillLoop(_, _, _, _)
FillLoop(node, fills, n, env) ==
    IF n = 0 THEN [node |-> node, paints |-> <<>>]
    ELSE LET before == FillLoop(node, fills, n - 1, env)
             Collected(made) ==
                 [node |-> made.node,
                  paints |-> IF made.paint = NullValue THEN before.paints
                             ELSE Append(before.paints, made.paint)]
         IN  Collected(convertFillWithVariable(before.node, fills[n], env.colors,
                                               env.faults.bind))

\* "Apply fills with variable support", the same lines in every render function
ApplyFills(node, props, env) ==
    IF Has(props, "fills") /\ Len(props.fills) > 0
    THEN LET Assigned(done) ==
                 IF Len(done.paints) > 0 THEN Set(done.node, "fills", done.paints)
                 ELSE done.node
         IN  Assigned(FillLoop(node, props.fills, Len(props.fills), env))
    ELSE node

RECURSIVE StrokeLoop(_, _, _)
StrokeLoop(strokes, n, env) ==
    IF n = 0 THEN <<>>
    ELSE LET before == StrokeLoop(strokes, n - 1, env)
             Collected(paint) == IF paint = NullValue THEN before ELSE Append(before, paint)
         IN  Collected(convertStrokeWithVariable(strokes[n], env.colors))

\* lines 193-203: the strokes of a frame
ApplyFrameStrokes(frame, props, env) ==
    IF Has(props, "strokes") /\ Len(props.strokes) > 0
    THEN LET Assigned(paints) ==
                 IF Len(paints) > 0 THEN Set(frame, "strokes", paints) ELSE frame
         IN  Assigned(StrokeLoop(props.strokes, Len(props.strokes), env))
    ELSE frame

\* the alignment without the validation of the cross axis
ApplyAlignmentUnvalidated(frame, props) ==
    LET primary == IF TruthyStr(props, "primaryAxisAlignItems")
                   THEN Set(frame, "primaryAxisAlignItems", props.primaryAxisAlignItems)
                   ELSE frame
    IN  IF TruthyStr(props, "counterAxisAlignItems")
        THEN Set(primary, "counterAxisAlignItems", props.counterAxisAlignItems)
        ELSE primary

\* lines 112-122: the alignment of the two axes
ApplyAlignment(frame, props) ==
    LET validCounterAxis == {"MIN", "MAX", "CENTER", "BASELINE"}
        counterValue == IF props.counterAxisAlignItems \in validCounterAxis
                        THEN props.counterAxisAlignItems
                        ELSE "CENTER"
        primary == IF TruthyStr(props, "primaryAxisAlignItems")
                   THEN Set(frame, "primaryAxisAlignItems", props.primaryAxisAlignItems)
                   ELSE frame
    IN  IF TruthyStr(props, "counterAxisAlignItems")
        THEN Set(primary, "counterAxisAlignItems", counterValue)
        ELSE primary

\* lines 123-131: item spacing
ApplyItemSpacing(frame, props, env) ==
    IF TruthyName(props, "itemSpacingVariable")
    THEN LET Spaced(spacingValue) ==
                 IF spacingValue.resolved THEN Set(frame, "itemSpacing", spacingValue.n)
                 ELSE frame
         IN  Spaced(resolveSpacingVariable(props.itemSpacingVariable, env))
    ELSE IF Has(props, "itemSpacing") THEN Set(frame, "itemSpacing", props.itemSpacing)
    ELSE frame

SetPadding(frame, top, right, bottom, left) ==
    Set(Set(Set(Set(frame, "paddingTop", top), "paddingRight", right),
            "paddingBottom", bottom), "paddingLeft", left)

\* lines 133-147: padding
ApplyPadding(frame, props, env) ==
    IF TruthyName(props, "paddingVariable")
    THEN LET Padded(paddingValue) ==
                 IF paddingValue.resolved
                 THEN SetPadding(frame, paddingValue.n, paddingValue.n, paddingValue.n,
                                 paddingValue.n)
                 ELSE frame
         IN  Padded(resolveSpacingVariable(props.paddingVariable, env))
    ELSE IF Has(props, "padding")
    THEN SetPadding(frame, props.padding.top, props.padding.right, props.padding.bottom,
                    props.padding.left)
    ELSE frame

\* lines 149-178 for one axis: field is primaryAxisSizingMode or
\* counterAxisSizingMode
ApplySizingMode(frame, props, field) ==
    IF TruthyStr(props, field)
    THEN IF props[field] = "HUG" THEN Set(frame, field, "AUTO")
         ELSE IF props[field] = "FIXED" THEN Set(frame, field, "FIXED")
         ELSE IF props[field] = "FILL" THEN Set(frame, field, "AUTO")
         ELSE frame
    ELSE Set(frame, field, "AUTO")

\* lines 108-179: auto-layout
ApplyAutoLayout(frame, props, env) ==
    IF TruthyStr(props, "layoutMode") /\ props.layoutMode # "NONE"
    THEN LET mode == Set(frame, "layoutMode", props.layoutMode)
             aligned == ApplyAlignment(mode, props)
             spaced == ApplyItemSpacing(aligned, props, env)
             padded == ApplyPadding(spaced, props, env)
             primary == ApplySizingMode(padded, props, "primaryAxisSizingMode")
         IN  ApplySizingMode(primary, props, "counterAxisSizingMode")
    ELSE frame

SetIfDefined(node, props, field) ==
    IF Has(props, field) THEN Set(node, field, props[field]) ELSE node

\* lines 230-235: absolute positioning
ApplyPositioning(frame, props) ==
    IF Has(props, "layoutPositioning") /\ props.layoutPositioning = "ABSOLUTE"
    THEN SetIfDefined(SetIfDefined(Set(frame, "layoutPositioning", "ABSOLUTE"),
                                   props, "x"), props, "y")
    ELSE frame

\* if (props.layoutAlign === 'STRETCH') node.layoutAlign = 'STRETCH'
ApplyLayoutAlign(node, props) ==
    IF Has(props, "layoutAlign") /\ props.layoutAlign = "STRETCH"
    THEN Set(node, "layoutAlign", "STRETCH")
    ELSE node

ApplyEffects(node, props) ==
    IF Has(props, "effects") /\ Len(props.effects) > 0
    THEN Set(node, "effects", ConvertEffects(props.effects, Len(props.effects)))
    ELSE node

applyFrameProperties(frame, props, env) ==
    LET sized == IF Has(props, "width") /\ Has(props, "height")
                 THEN Resize(frame, props.width, props.height)
                 ELSE frame
        laidOut == ApplyAutoLayout(sized, props, env)
        filled == ApplyFills(laidOut, props, env)
        stroked == ApplyFrameStrokes(filled, props, env)
        weighted == SetIfDefined(stroked, props, "strokeWeight")
        rounded == SetIfDefined(weighted, props, "cornerRadius")
        shaded == ApplyEffects(rounded, props)
        clipped == SetIfDefined(shaded, props, "clipsContent")
        faded == SetIfDefined(clipped, props, "opacity")
        positioned == ApplyPositioning(faded, props)
        aligned == ApplyLayoutAlign(positioned, props)
    IN  SetIfDefined(aligned, props, "layoutGrow")

----------------------------------------------------------------------------
(* Text: loadFont (fontLoader.ts), getFontStyle (fonts.ts), renderText and *)
(* applyManualTextProperties (elements.ts).  A world is what a render      *)
(* changes outside the node it builds: the module's loadedFonts set, the   *)
(* fonts loaded in the host and the font calls made on the host, in order. *)
(* A family is a sequence of tokens, so that a font key is the             *)
(* concatenation the source builds.                                        *)

Inter == <<"Inter">>
Font(family, style) == [family |-> family, style |-> style]
InterRegular == Font(Inter, "Regular")

\* `${family}-${style}`
FontKey(family, style) == family \o <<"-">> \o <<style>>

\* FONT_WEIGHT_TO_STYLE[weight] || 'Regular'
getFontStyle(weight) ==
    CASE weight = 100 -> "Thin"
      [] weight = 200 -> "ExtraLight"
      [] weight = 300 -> "Light"
      [] weight = 400 -> "Regular"
      [] weight = 500 -> "Medium"
      [] weight = 600 -> "SemiBold"
      [] weight = 700 -> "Bold"
      [] weight = 800 -> "ExtraBold"
      [] weight = 900 -> "Black"
      [] OTHER -> "Regular"

\* the loadFontAsync calls of the renderer, by the place of the call:
\* renderText's two and loadFont's three
LoadSites == {"default", "style", "requested", "interSameStyle", "interRegular"}

\* await figma.loadFontAsync(font) at the call site; env.failedLoads are the
\* sites whose call is rejected
HostLoad(w, font, site, env) ==
    LET ok == site \notin env.failedLoads
    IN  [ok |-> ok,
         world |-> [w EXCEPT !.hostFonts = IF ok THEN @ \union {font} ELSE @,
                             !.calls = Append(@, [op |-> "loadFontAsync", font |-> font,
                                                  ok |-> ok])]]

AddLoaded(w, fontKey) == [w EXCEPT !.loadedFonts = @ \union {fontKey}]

loadFont(family, style, w, env) ==
    LET fontKey == FontKey(family, style)
        first == HostLoad(w, Font(family, style), "requested", env)
        second == HostLoad(first.world, Font(Inter, style), "interSameStyle", env)
        third == HostLoad(IF family # Inter THEN second.world ELSE first.world,
                          InterRegular, "interRegular", env)
    IN  IF fontKey \in w.loadedFonts THEN [font |-> Font(family, style), world |-> w]
        ELSE IF first.ok
        THEN [font |-> Font(family, style), world |-> AddLoaded(first.world, fontKey)]
        ELSE IF family # Inter /\ second.ok
        THEN [font |-> Font(Inter, style),
              world |-> AddLoaded(second.world, FontKey(Inter, style))]
        ELSE [font |-> InterRegular,
              world |-> IF third.ok THEN AddLoaded(third.world, FontKey(Inter, "Regular"))
                        ELSE third.world]

\* text.characters = element.characters || ''
SetCharacters(text, element, w) ==
    [node |-> Set(text, "characters", IF TruthyStr(element, "characters")
                                      THEN element.characters ELSE ""),
     world |-> [w EXCEPT !.calls = Append(@, [op |-> "characters",
                                               font |-> text.fontName])]]

SetIfTruthy(node, props, field) ==
    IF TruthyStr(props, field) THEN Set(node, field, props[field]) ELSE node

SetIfTruthyNum(node, props, field) ==
    IF TruthyNum(props, field) THEN Set(node, field, props[field]) ELSE node

\* lines 344-356: line height and letter spacing
ApplyTextSpacing(text, element) ==
    LET lined == IF Has(element, "lineHeight")
                 THEN IF element.lineHeight.kind = "number"
                      THEN Set(text, "lineHeight",
                               [value |-> element.lineHeight.n, unit |-> "PIXELS"])
                      ELSE Set(text, "lineHeight", element.lineHeight)
                 ELSE text
    IN  IF Has(element, "letterSpacing")
        THEN Set(lined, "letterSpacing", [value |-> element.letterSpacing, unit |-> "PIXELS"])
        ELSE lined

applyManualTextProperties(text, element, w, env) ==
    LET fontFamily == IF TruthyName(element, "fontFamily") THEN element.fontFamily ELSE Inter
        fontWeight == IF TruthyNum(element, "fontWeight") THEN element.fontWeight ELSE 400
        fontStyle == getFontStyle(fontWeight)
        \* lines 333-366, after the characters are written
        Styled(written) ==
            LET size == SetIfTruthyNum(written.node, element, "fontSize")
                aligned == SetIfTruthy(SetIfTruthy(size, element, "textAlignHorizontal"),
                                       element, "textAlignVertical")
                spaced == ApplyTextSpacing(aligned, element)
            IN  [node |-> SetIfTruthy(SetIfTruthy(spaced, element, "textDecoration"),
                                      element, "textCase"),
                 world |-> written.world]
        Written(loaded) ==
            Styled(SetCharacters(Set(text, "fontName", loaded.font), element, loaded.world))
    IN  Written(loadFont(fontFamily, fontStyle, w, env))

\* lines 294-314: size, layout participation and opacity of a text node
ApplyTextLayout(text, element) ==
    LET sized == IF Has(element, "width")
                 THEN Set(Set(text, "width", element.width), "textAutoResize", "HEIGHT")
                 ELSE text
        aligned == IF Has(element, "layoutAlign") /\ element.layoutAlign = "STRETCH"
                   THEN Set(Set(sized, "layoutAlign", "STRETCH"), "textAutoResize", "HEIGHT")
                   ELSE sized
    IN  SetIfDefined(SetIfDefined(aligned, element, "layoutGrow"), element, "opacity")

Rendered(node, w) == [threw |-> FALSE, node |-> node, world |-> w]
Rejected(node, w) == [threw |-> TRUE, node |-> node, world |-> w]

\* a renderText that relies on the font the new node already has
SkipDefaultFont(w, env) == [ok |-> TRUE, world |-> w]

\* line 260: await figma.loadFontAsync({ family: 'Inter', style: 'Regular' })
LoadDefaultFont(w, env) == HostLoad(w, InterRegular, "default", env)

\* lines 262-280: the style path and the manual path
\* a renderText that throws when the named style is not in the cache
UnstyledTextRejected(text, element, w, env) == Rejected(text, w)

\* renderText, lines 275-280: no style of that name, manual properties
UnstyledText(text, element, w, env) ==
    LET Manual(manual) == Rendered(manual.node, manual.world)
    IN  Manual(applyManualTextProperties(text, element, w, env))

ApplyTextStyle(text, element, w, env) ==
    LET Manual(manual) == Rendered(manual.node, manual.world)
        Written(textStyle, written) ==
            Rendered(Set(Set(written.node, "textStyleId", textStyle.id),
                         "fontName", textStyle.fontName),
                     written.world)
        Loaded(textStyle, styleFont) ==
            IF styleFont.ok
            THEN Written(textStyle, SetCharacters(text, element, styleFont.world))
            ELSE Rejected(text, styleFont.world)
        Styled(textStyle) ==
            IF textStyle # NullValue
            THEN Loaded(textStyle, HostLoad(w, textStyle.fontName, "style", env))
            ELSE UnstyledText(text, element, w, env)
    IN  IF TruthyName(element, "textStyleName")
        THEN Styled(findTextStyle(env.textStyles, element.textStyleName))
        ELSE Manual(applyManualTextProperties(text, element, w, env))

renderText(element, w, env) ==
    LET text == Set(Set(CreateNode("TEXT"), "fontName", InterRegular), "name",
                    IF TruthyStr(element, "name") THEN element.name ELSE "Text")
        Finished(styled) ==
            IF styled.threw THEN styled
            ELSE Rendered(ApplyTextLayout(ApplyFills(styled.node, element, env), element),
                          styled.world)
        Started(default) ==
            IF ~default.ok THEN Rejected(text, default.world)
            ELSE Finished(ApplyTextStyle(text, element, default.world, env))
    IN  Started(LoadDefaultFont(w, env))

----------------------------------------------------------------------------
(* The other elements, renderElement and renderDesign.                     *)

NameOr(element, fallback) == IF TruthyStr(element, "name") THEN element.name ELSE fallback

\* the strokes of a rectangle, an ellipse or a line: the weight is set only
\* with the paints
ApplyShapeStrokes(node, element, env) ==
    IF Has(element, "strokes") /\ Len(element.strokes) > 0
    THEN LET Assigned(paints) ==
                 IF Len(paints) > 0
                 THEN SetIfDefined(Set(node, "strokes", paints), element, "strokeWeight")
                 ELSE node
         IN  Assigned(StrokeLoop(element.strokes, Len(element.strokes), env))
    ELSE node

SizeIfBoth(node, element) ==
    IF Has(element, "width") /\ Has(element, "height")
    THEN Resize(node, element.width, element.height)
    ELSE node

renderRectangle(element, env) ==
    LET rect == SizeIfBoth(Set(CreateNode("RECTANGLE"), "name", NameOr(element, "Rectangle")),
                           element)
        stroked == ApplyShapeStrokes(ApplyFills(rect, element, env), element, env)
        shaded == ApplyEffects(SetIfDefined(stroked, element, "cornerRadius"), element)
        faded == SetIfDefined(shaded, element, "opacity")
    IN  SetIfDefined(ApplyLayoutAlign(faded, element), element, "layoutGrow")

renderEllipse(element, env) ==
    LET ellipse == SizeIfBoth(Set(CreateNode("ELLIPSE"), "name", NameOr(element, "Ellipse")),
                              element)
        stroked == ApplyShapeStrokes(ApplyFills(ellipse, element, env), element, env)
    IN  SetIfDefined(ApplyEffects(stroked, element), element, "opacity")

renderLine(element, env) ==
    LET line == Set(CreateNode("LINE"), "name", NameOr(element, "Line"))
        sized == IF Has(element, "width") THEN Resize(line, element.width, 0) ELSE line
        stroked == IF Has(element, "strokes") /\ Len(element.strokes) > 0
                   THEN ApplyShapeStrokes(sized, element, env)
                   ELSE Set(sized, "strokes", <<[type |-> "SOLID", color |-> Black]>>)
    IN  SetIfDefined(stroked, element, "opacity")

\* lines 542-569: the instance of an imported component
CreateInstance(element, component) ==
    LET instance == SizeIfBoth(Set(Set(CreateNode("INSTANCE"), "mainComponent",
                                       [key |-> component.key]),
                                   "name", NameOr(element, component.name)), element)
        configured ==
            IF Has(element, "componentProperties")
            THEN Set(instance, "componentProperties",
                     [k \in DOMAIN element.componentProperties \intersect component.properties
                         |-> element.componentProperties[k]])
            ELSE instance
    IN  SetIfDefined(ApplyLayoutAlign(configured, element), element, "layoutGrow")

\* figma.importComponentByKeyAsync
Importable(env, key) == ~env.faults.components /\ \E c \in env.components : c.key = key

RECURSIVE renderElement(_, _, _), renderFrame(_, _, _), RenderChildren(_, _, _, _, _)

\* the loop over the children: the parent after the first n of them
RenderChildren(parent, children, n, w, env) ==
    IF n = 0 THEN Rendered(parent, w)
    ELSE LET Appended(before, child) ==
                 IF child.threw THEN Rejected(before.node, child.world)
                 ELSE Rendered(Set(before.node, "children",
                                   Append(before.node.children, child.node)),
                               child.world)
             After(before) ==
                 IF before.threw THEN before
                 ELSE Appended(before, renderElement(children[n], before.world, env))
         IN  After(RenderChildren(parent, children, n - 1, w, env))

\* if (props.children) for (const child of props.children) ... appendChild
RenderChildrenOf(frame, props, w, env) ==
    IF Has(props, "children")
    THEN RenderChildren(frame, props.children, Len(props.children), w, env)
    ELSE Rendered(frame, w)

renderFrame(element, w, env) ==
    RenderChildrenOf(applyFrameProperties(Set(CreateNode("FRAME"), "name",
                                              NameOr(element, "Frame")),
                                          element, env),
                     element, w, env)

\* an instance whose failed lookup is not caught
FallbackRethrows(element, w, env) == Rejected(CreateNode("FRAME"), w)

\* renderInstance, lines 534-537 and 569-573: return renderFrame(element, ...)
FallbackToFrame(element, w, env) == renderFrame(element, w, env)

renderElement(element, w, env) ==
    CASE element.type = "FRAME" -> renderFrame(element, w, env)
      [] element.type = "TEXT" -> renderText(element, w, env)
      [] element.type = "RECTANGLE" -> Rendered(renderRectangle(element, env), w)
      [] element.type = "ELLIPSE" -> Rendered(renderEllipse(element, env), w)
      [] element.type = "LINE" -> Rendered(renderLine(element, env), w)
      [] element.type = "INSTANCE" ->
            IF TruthyStr(element, "componentKey") /\ Importable(env, element.componentKey)
            THEN Rendered(CreateInstance(element,
                              CHOOSE c \in env.components : c.key = element.componentKey), w)
            ELSE FallbackToFrame(element, w, env)
      [] OTHER -> renderFrame(element, w, env)

\* a root that keeps the size its properties gave it
KeepRootSize(frame, viewport) == frame

\* lines 43-46 of renderDesign
FixRootSize(frame, viewport) ==
    Resize(Set(Set(frame, "primaryAxisSizingMode", "FIXED"), "counterAxisSizingMode", "FIXED"),
           viewport.width, viewport.height)

\* lines 33-38 of renderDesign: the design after the assignments to it
EnsureAutoLayout(design) ==
    IF ~TruthyStr(design, "layoutMode") \/ design.layoutMode = "NONE"
    THEN Set(Set(Set(design, "layoutMode", "VERTICAL"),
                 "primaryAxisAlignItems",
                 IF TruthyStr(design, "primaryAxisAlignItems")
                 THEN design.primaryAxisAlignItems ELSE "MIN"),
             "counterAxisAlignItems",
             IF TruthyStr(design, "counterAxisAlignItems")
             THEN design.counterAxisAlignItems ELSE "CENTER")
    ELSE design

\* the environment the render functions read after initializeCaches
Environment(host, caches) ==
    [textStyles |-> caches.textStyles, colors |-> caches.colors, spacing |-> caches.spacing,
     collections |-> host.collections, components |-> host.components,
     faults |-> host.faults, failedLoads |-> host.failedLoads]

\* renderDesign: the caches it builds, the design as it leaves it, and the
\* frame it returns unless it threw
renderDesign(design, viewport, host, w) ==
    LET caches == initializeCaches(host.textStyles, host.collections, host.faults)
        env == Environment(host, caches)
        created == Resize(Set(CreateNode("FRAME"), "name", NameOr(design, "Generated Screen")),
                          viewport.width, viewport.height)
        placed == Set(Set(created, "x", host.center.x - viewport.width \div 2),
                      "y", host.center.y - viewport.height \div 2)
        ensured == EnsureAutoLayout(design)
        fixed == FixRootSize(applyFrameProperties(placed, ensured, env), viewport)
        Drawn(done) ==
            [threw |-> done.threw, frame |-> done.node, world |-> done.world,
             design |-> ensured, caches |-> caches]
    IN  Drawn(RenderChildrenOf(fixed, ensured, w, env))

----------------------------------------------------------------------------
(* Provider adapters: streamClaudeGeneration (api/claude.ts) and           *)
(* streamOpenAIGeneration (api/openai.ts).  The adapter's locals are       *)
(* st = [fullText, progress, broke]: the text accumulated, the values the  *)
(* progress callback was called with, in order, and whether the loop over  *)
(* the lines of a chunk was left by its break.                             *)

kDelta == <<"d", "e", "l", "t", "a">>
kText == <<"t", "e", "x", "t">>
kError == <<"e", "r", "r", "o", "r">>
kMessage == <<"m", "e", "s", "s", "a", "g", "e">>
kChoices == <<"c", "h", "o", "i", "c", "e", "s">>
kContent == <<"c", "o", "n", "t", "e", "n", "t">>
kFinishReason == <<"f", "i", "n", "i", "s", "h", "_", "r", "e", "a", "s", "o", "n">>
sContentBlockDelta == <<"c", "o", "n", "t", "e", "n", "t", "_", "b", "l", "o", "c", "k", "_", "d", "e", "l", "t", "a">>
sMessageStop == <<"m", "e", "s", "s", "a", "g", "e", "_", "s", "t", "o", "p">>
sStop == <<"s", "t", "o", "p">>
sPing == <<"p", "i", "n", "g">>
sOverloaded == <<"O", "v", "e", "r", "l", "o", "a", "d", "e", "d">>
DataPrefix == <<"d", "a", "t", "a", ":", " ">>
DoneMark == <<"[", "D", "O", "N", "E", "]">>
tNoResponseBody == <<"N", "o", " ", "r", "e", "s", "p", "o", "n", "s", "e", " ", "b", "o", "d", "y">>
tClaudeApiError == <<"C", "l", "a", "u", "d", "e", " ", "A", "P", "I", " ", "e", "r", "r", "o", "r", ":", " ">>
tOpenAIApiError == <<"O", "p", "e", "n", "A", "I", " ", "A", "P", "I", " ", "e", "r", "r", "o", "r", ":", " ">>
\* jsonRepair.ts line 165
tParseError ==
    <<"F", "a", "i", "l", "e", "d", " ", "t", "o", " ", "p", "a",
      "r", "s", "e", " ", "r", "e", "s", "p", "o", "n", "s", "e",
      " ", "a", "s", " ", "J", "S", "O", "N", ".", " ", "T", "h",
      "e", " ", "r", "e", "s", "p", "o", "n", "s", "e", " ", "m",
      "a", "y", " ", "h", "a", "v", "e", " ", "b", "e", "e", "n",
      " ", "t", "r", "u", "n", "c", "a", "t", "e", "d", ".", " ",
      "T", "r", "y", " ", "a", " ", "s", "i", "m", "p", "l", "e",
      "r", " ", "d", "e", "s", "i", "g", "n", " ", "r", "e", "q",
      "u", "e", "s", "t", ".">>

\* buffer.split('\n'): the pieces between the newlines, at least one
RECURSIVE Split(_)
Split(s) ==
    IF IndexOf(s, <<NL>>) = -1 THEN <<s>>
    ELSE <<SubSeq(s, 1, IndexOf(s, <<NL>>))>> \o Split(SliceFrom(s, IndexOf(s, <<NL>>) + 1))

\* value?.key : undefined for null and undefined, the property otherwise
Optional(v, key) == IF v.t = "obj" THEN GetKey(v, key) ELSE JUndefined

\* value?.[0]
OptionalFirst(v) == IF v.t = "arr" /\ Len(v.a) > 0 THEN v.a[1] ELSE JUndefined

\* a callback that is handed the new fragment only
ReportDelta(st, text) ==
    [st EXCEPT !.fullText = @ \o text, !.progress = Append(@, text)]

\* fullText += text; onProgress?.(fullText)
Report(st, text) ==
    [st EXCEPT !.fullText = @ \o text, !.progress = Append(@, st.fullText \o text)]

\* the statements of a try block that ended by a throw which the catch of
\* lines 151-153 swallows: what they assigned stays assigned
Swallowed(st) == st

\* claude.ts lines 137-150, for a line that parsed to event
ClaudeEvent(st, event) ==
    LET type == Optional(event, kType)
        text == Optional(Optional(event, kDelta), kText)
        Rest(after) ==
            IF type = JStr(sMessageStop) THEN [after EXCEPT !.broke = TRUE]
            ELSE IF type = JStr(kError) THEN Swallowed(after)
            ELSE after
    IN  IF event = JLit("null") THEN Swallowed(st)
        ELSE IF type = JStr(sContentBlockDelta) /\ Truthy(text) /\ text.t = "str"
        THEN Rest(Report(st, text.s))
        ELSE Rest(st)

\* openai.ts lines 130-140, for a line that parsed to event
OpenAIEvent(st, event) ==
    LET choice == OptionalFirst(Optional(event, kChoices))
        content == Optional(Optional(choice, kDelta), kContent)
        Rest(after) ==
            IF Optional(choice, kFinishReason) = JStr(sStop)
            THEN [after EXCEPT !.broke = TRUE]
            ELSE after
    IN  IF event = JLit("null") THEN Swallowed(st)
        ELSE IF Truthy(content) /\ content.t = "str" THEN Rest(Report(st, content.s))
        ELSE Rest(st)

\* the body of the loop over the lines, for one line
StreamLine(api, st, line) ==
    LET data == SliceFrom(line, 6)
        Handled(parsed) ==
            IF ~parsed.ok THEN Swallowed(st)
            ELSE IF api = "claude" THEN ClaudeEvent(st, parsed.val)
            ELSE OpenAIEvent(st, parsed.val)
    IN  IF ~StartsWith(line, DataPrefix) THEN st
        ELSE IF data = DoneMark THEN st
        ELSE Handled(JsonParse(data))

\* for (const line of lines) { ... break ... }: the lines after a break are
\* not looked at
RECURSIVE StreamLines(_, _, _, _)
StreamLines(api, st, lines, n) ==
    IF n = 0 THEN st
    ELSE LET Next_(before) ==
                 IF before.broke THEN before ELSE StreamLine(api, before, lines[n])
         IN  Next_(StreamLines(api, st, lines, n - 1))

\* one turn of the while loop after a read that was not done: the buffer it
\* leaves and the locals; the break of the inner loop leaves that loop only
StreamChunk(api, st, buf, value) ==
    LET Left(pieces, done) ==
            [buffer |-> pieces[Len(pieces)], fullText |-> done.fullText,
             progress |-> done.progress]
        Lines(pieces) ==
            Left(pieces, StreamLines(api, st, pieces, Len(pieces) - 1))
    IN  Lines(Split(buf \o value))

Failed(message) == [state |-> "failed", message |-> message]

\* an adapter that reads whatever fetch resolved to
ResponseUnchecked(api, resp) == [state |-> "reading"]

\* lines 106-113 of claude.ts, 99-106 of openai.ts
CheckResponse(api, resp) ==
    IF ~resp.ok
    THEN Failed((IF api = "claude" THEN tClaudeApiError ELSE tOpenAIApiError)
                \o NatToDigits(resp.status) \o <<" ", "-", " ">> \o resp.text)
    ELSE IF ~resp.body THEN Failed(tNoResponseBody)
    ELSE [state |-> "reading"]

----------------------------------------------------------------------------
(* The UI (ui/App.tsx, ui/hooks/useDesignSystem.ts) and the plugin's main  *)
(* thread (plugin/main.ts).  A message carries, besides its fields, the    *)
(* number of the handleSubmit call it belongs to (0 for none).             *)

tAborted == <<"A", "b", "o", "r", "t", "E", "r", "r", "o", "r">>

\* a submit control that stays enabled during a generation
SubmitNeverDisabled(generating) == FALSE

\* disabled={isGenerating ...} on the text input and on the submit button
SubmitDisabled(generating) == generating

\* return parseDesignJson(fullText)
ParsedText(text) ==
    LET Ended(outcome) ==
            IF outcome.kind = "returned"
            THEN [state |-> "returned", design |-> outcome.value]
            ELSE Failed(tParseError)
    IN  Ended(parseDesignJson(text))

\* generateDesign: one call of the adapter of the selected provider, whose
\* body arrives whole; abort says where the request was cancelled, if at all
generateDesign(api, resp, body, abort) ==
    LET Read(checked) ==
            IF checked.state = "failed" THEN checked
            ELSE IF abort = "read" THEN Failed(tAborted)
            ELSE ParsedText(StreamChunk(api, [fullText |-> <<>>, progress |-> <<>>,
                                              broke |-> FALSE],
                                        <<>>, body).fullText)
    IN  IF abort = "fetch" THEN Failed(tAborted) ELSE Read(CheckResponse(api, resp))

PluginMessage(type) == [type |-> type, attempt |-> 0]

RenderDesignMessage(design, attempt) ==
    [type |-> "render-design", design |-> design, attempt |-> attempt]

\* a handleSubmit that posts whatever the generation call left
PostedAnyway(outcome, attempt) ==
    <<RenderDesignMessage(IF outcome.state = "returned" THEN outcome.design ELSE JUndefined,
                          attempt)>>

\* handleSubmit after the await: the try block posts, the catch block does not
Posted(outcome, attempt) ==
    IF outcome.state = "returned"
    THEN <<RenderDesignMessage(outcome.design, attempt)>>
    ELSE <<>>

GenerationStarted(attempt) == [type |-> "generation-started", attempt |-> attempt]

GenerationComplete(attempt) ==
    [type |-> "generation-complete", success |-> TRUE, attempt |-> attempt]

SelectionChanged(selection) ==
    [type |-> "selection-changed", selection |-> selection, attempt |-> 0]

SelectionData(data) == [type |-> "selection-data", data |-> data, attempt |-> 0]

\* The page holds nodes drawn before the session and the frames the renders
\* create; a node is known by its id.
OldFrame == <<"old", 1>>
OldText == <<"old", 2>>
OtherFrame == <<"old", 3>>
RenderedFrame(attempt) == <<"new", attempt>>

NodeType(id) == IF id = OldText THEN "TEXT" ELSE "FRAME"

EmptyPage == [nodes |-> {}, selection |-> <<>>, changes |-> 0]

\* sendSelectionInfo: the message for the current selection
sendSelectionInfo(selection) ==
    IF Len(selection) = 0 THEN SelectionChanged(NullValue)
    ELSE SelectionChanged([id |-> selection[1], type |-> NodeType(selection[1]),
                           hasMultiple |-> Len(selection) > 1, count |-> Len(selection)])

\* serializeSelection, of which the session keeps whose serialization it is
SerializedSelection(selection) ==
    IF Len(selection) = 0 THEN NullValue ELSE [of |-> selection[1]]

\* handleRenderDesign, lines 112-123: the node the new frame will replace
ReplaceNode(selection) ==
    IF Len(selection) = 1 /\ NodeType(selection[1]) \in {"FRAME", "COMPONENT", "INSTANCE"}
    THEN selection[1]
    ELSE NullValue

\* a handler that removes the selected node whether or not the render threw
RemovedAnyway(nodes, replaceNode, threw) ==
    IF replaceNode # NullValue THEN nodes \ {replaceNode} ELSE nodes

\* lines 126-135: replaceNode.remove() comes after the await of renderDesign
Removed(nodes, replaceNode, threw) ==
    IF ~threw /\ replaceNode # NullValue THEN nodes \ {replaceNode} ELSE nodes

UiIdle == [selection |-> NullValue, selectionData |-> NullValue, streaming |-> FALSE]

\* existingDesign: selection ? selectionData || undefined : undefined
ExistingDesign(state) ==
    IF state.selection # NullValue /\ state.selectionData # NullValue
    THEN state.selectionData
    ELSE JUndefined

\* a handleMessage that ends the generating state on generation-complete only
GeneratingUnlessComplete(msg, generating) ==
    IF msg.type = "generation-complete" THEN FALSE ELSE generating

\* handleMessage: setIsGenerating(false) on generation-complete and on error
GeneratingAfter(msg, generating) ==
    IF msg.type \in {"generation-complete", "error"} THEN FALSE ELSE generating

\* handleMessage: the UI's state after the message
UiAfter(msg, state) ==
    CASE msg.type = "selection-changed" ->
             IF msg.selection # NullValue THEN [state EXCEPT !.selection = msg.selection]
             ELSE [state EXCEPT !.selection = NullValue, !.selectionData = NullValue]
      [] msg.type = "selection-data" -> [state EXCEPT !.selectionData = msg.data]
      [] msg.type = "generation-complete" ->
             IF msg.success THEN [state EXCEPT !.streaming = FALSE] ELSE state
      [] msg.type = "error" -> [state EXCEPT !.streaming = FALSE]
      [] OTHER -> state

\* a catch block that only logs
CaughtSilently(attempt) == <<>>

\* the catch block of handleRenderDesign
Caught(attempt) ==
    <<[type |-> "error", message |-> "Failed to render design", attempt |-> attempt]>>

Handler(type, attempt, at) == [type |-> type, attempt |-> attempt, at |-> at]

\* the types of the messages among msgs, in order
Types(msgs) == [k \in 1..Len(msgs) |-> msgs[k].type]

----------------------------------------------------------------------------
(* The Prompt Builder: buildSystemPrompt (ui/api/prompts.ts) with          *)
(* hexToRgb and formatColorForPrompt (shared/utils/colors.ts).  A prompt   *)
(* is the sequence of its pieces, in order: a piece is a line of the       *)
(* template and the texts interpolated into it.  Of the template, the      *)
(* headings, the rules and the lines with interpolations are kept; the     *)
(* JSON samples are left out.                                              *)

Piece(text, values) == [text |-> text, values |-> values]
Line(text) == Piece(text, <<>>)

\* shared/types.ts, DEFAULT_COLOR_PALETTE
DEFAULT_COLOR_PALETTE ==
    [primary |-> <<"#", "1", "8", "A", "0", "F", "B">>,
     primaryDark |-> <<"#", "0", "D", "8", "C", "E", "6">>,
     background |-> <<"#", "F", "A", "F", "A", "F", "A">>,
     backgroundCard |-> <<"#", "F", "F", "F", "F", "F", "F">>,
     textPrimary |-> <<"#", "2", "1", "2", "1", "2", "1">>,
     textSecondary |-> <<"#", "7", "5", "7", "5", "7", "5">>,
     border |-> <<"#", "E", "0", "E", "0", "E", "0">>,
     success |-> <<"#", "2", "E", "B", "8", "6", "B">>,
     error |-> <<"#", "E", "8", "4", "5", "4", "5">>,
     warning |-> <<"#", "F", "F", "C", "1", "0", "7">>]

\* shared/constants.ts, DESIGN_SYSTEM_LIMITS
MAX_COLOR_VARIABLES == 50
MAX_SPACING_VARIABLES == 30
MAX_TEXT_STYLES == 25
MAX_COMPONENTS == 50

LowerHex == <<"0", "1", "2", "3", "4", "5", "6", "7", "8", "9", "a", "b", "c", "d", "e", "f">>
UpperHex == <<"0", "1", "2", "3", "4", "5", "6", "7", "8", "9", "A", "B", "C", "D", "E", "F">>

IsHexDigit(c) == \E i \in 1..16 : c = LowerHex[i] \/ c = UpperHex[i]

\* parseInt(digit, 16)
HexDigitValue(c) == (CHOOSE i \in 1..16 : c = LowerHex[i] \/ c = UpperHex[i]) - 1

\* hexToRgb: the channels in hundredths, Math.round((n / 255) * 100) / 100
hexToRgb(hex) ==
    LET digits == IF Len(hex) > 0 /\ hex[1] = "#" THEN Tail(hex) ELSE hex
        Channel(i) ==
            ((16 * HexDigitValue(digits[i]) + HexDigitValue(digits[i + 1])) * 200 + 255)
                \div 510
    IN  IF Len(digits) = 6 /\ \A i \in 1..6 : IsHexDigit(digits[i])
        THEN Rgb(Channel(1), Channel(3), Channel(5))
        ELSE Rgb(0, 0, 0)

\* `${n}` of a number of hundredths between 0 and 1
FormatHundredths(n) ==
    IF n >= 100 THEN <<"1">>
    ELSE IF n = 0 THEN <<"0">>
    ELSE IF n % 10 = 0 THEN <<"0", ".">> \o NatToDigits(n \div 10)
    ELSE <<"0", ".">> \o NatToDigits(n \div 10) \o NatToDigits(n % 10)

\* `{ "r": ${rgb.r}, "g": ${rgb.g}, "b": ${rgb.b} } (${hex})`
formatColorForPrompt(hex) ==
    LET Formatted(rgb) ==
            <<"{", " ", DQ, "r", DQ, ":", " ">> \o FormatHundredths(rgb.r)
            \o <<",", " ", DQ, "g", DQ, ":", " ">> \o FormatHundredths(rgb.g)
            \o <<",", " ", DQ, "b", DQ, ":", " ">> \o FormatHundredths(rgb.b)
            \o <<" ", "}", " ", "(">> \o hex \o <<")">>
    IN  Formatted(hexToRgb(hex))

\* list.slice(0, limit)
First(list, limit) == SubSeq(list, 1, IF Len(list) < limit THEN Len(list) ELSE limit)

\* contextInstructions.trim() is not empty
HasText(text) == \E i \in 1..Len(text) : text[i] \notin WhiteSpace

\* lines 72-77
hasDesignSystem(designSystem) ==
    /\ ~designSystem.isNull
    /\ \/ Len(designSystem.colorVariables) > 0
       \/ Len(designSystem.spacingVariables) > 0
       \/ Len(designSystem.textStyles) > 0
       \/ Len(designSystem.components) > 0

\* lines 17-69
PromptHead(viewport) ==
    <<Line("You are a UI/UX design assistant that generates Figma-compatible design specifications in JSON format."),
      Line("## Output Format"),
      Line("You MUST respond with valid JSON only. No markdown, no explanations, just the JSON object."),
      Line("## CRITICAL: Frame Sizing"),
      Line("## Design Guidelines"),
      Piece("- Target viewport: ${viewport.width}x${viewport.height}px (${viewport.name})",
            <<NatToDigits(viewport.width), NatToDigits(viewport.height), viewport.name>>),
      Line("- Colors are in 0-1 range (e.g., white is { \"r\": 1, \"g\": 1, \"b\": 1 })")>>

\* lines 90-114
ColorTokens(designSystem) ==
    IF Len(designSystem.colorVariables) > 0
    THEN <<Line("### COLOR TOKENS - USE \"colorVariable\" ONLY (MANDATORY)"),
           Line("You MUST use these exact token names for ALL colors. Raw RGB/hex values are NOT allowed."),
           Piece("Available color tokens: ${colorList}",
                 [k \in 1..Len(First(designSystem.colorVariables, MAX_COLOR_VARIABLES)) |->
                     designSystem.colorVariables[k].name]),
           Line("Pick the most semantically appropriate token for each use case.")>>
    ELSE <<>>

\* lines 116-140
SpacingTokens(designSystem) ==
    IF Len(designSystem.spacingVariables) > 0
    THEN <<Line("### SPACING TOKENS - USE \"paddingVariable\" and \"itemSpacingVariable\" (MANDATORY)"),
           Line("You MUST use these exact token names for ALL spacing. Raw numbers are NOT allowed."),
           Piece("Available spacing tokens: ${spacingList}",
                 [k \in 1..Len(First(designSystem.spacingVariables, MAX_SPACING_VARIABLES)) |->
                     designSystem.spacingVariables[k].name \o <<" ", "=", " ">>
                     \o NatToDigits(designSystem.spacingVariables[k].value) \o <<"p", "x">>]),
           Line("Pick the token with the closest value for your needs.")>>
    ELSE <<>>

\* lines 142-154
TextStyleTokens(designSystem) ==
    IF Len(designSystem.textStyles) > 0
    THEN <<Line("### TEXT STYLES - USE \"textStyleName\" (REQUIRED)"),
           Piece("Available text styles (use exact name string): ${...}",
                 [k \in 1..Len(First(designSystem.textStyles, MAX_TEXT_STYLES)) |->
                     designSystem.textStyles[k].name]),
           Line("WRONG - Never set font properties manually:")>>
    ELSE <<>>

\* lines 156-161
ComponentList(designSystem) ==
    IF Len(designSystem.components) > 0
    THEN <<Piece("### Available Components (use type: \"INSTANCE\" with componentKey): ${...}",
                 [k \in 1..Len(First(designSystem.components, MAX_COMPONENTS)) |->
                     designSystem.components[k].name \o <<":", " ">>
                     \o designSystem.components[k].key])>>
    ELSE <<>>

\* lines 79-170: the token mode
TokenMode(designSystem) ==
    <<Line("## DESIGN SYSTEM TOKENS - MANDATORY USAGE"),
      Line("This file has semantic design tokens. You MUST use these tokens by name - NEVER use raw values.")>>
    \o ColorTokens(designSystem)
    \o SpacingTokens(designSystem)
    \o TextStyleTokens(designSystem)
    \o ComponentList(designSystem)
    \o <<Line("## STRICT TOKEN RULES - FOLLOW EXACTLY"),
         Line("1. COLORS: Use \"colorVariable\" with token name - NEVER raw RGB values"),
         Line("2. TEXT: Use \"textStyleName\" - NEVER fontSize/fontFamily/fontWeight"),
         Line("3. SPACING: Use \"paddingVariable\"/\"itemSpacingVariable\" - NEVER raw numbers"),
         Line("4. Choose semantically appropriate tokens (e.g., \"Background/Primary\" for main bg, \"Text/Primary\" for main text)"),
         Line("5. If a token name seems appropriate for the context, USE IT")>>

\* lines 172-201: the palette mode
PaletteMode(colors) ==
    <<Line("## Color Palette (USE THESE COLORS)"),
      Line("Use this color palette for your designs:"),
      Piece("- Primary: ${...}", <<formatColorForPrompt(colors.primary)>>),
      Piece("- Primary Dark: ${...}", <<formatColorForPrompt(colors.primaryDark)>>),
      Piece("- Background: ${...}", <<formatColorForPrompt(colors.background)>>),
      Piece("- Card Background: ${...}", <<formatColorForPrompt(colors.backgroundCard)>>),
      Piece("- Text Primary: ${...}", <<formatColorForPrompt(colors.textPrimary)>>),
      Piece("- Text Secondary: ${...}", <<formatColorForPrompt(colors.textSecondary)>>),
      Piece("- Border: ${...}", <<formatColorForPrompt(colors.border)>>),
      Piece("- Success: ${...}", <<formatColorForPrompt(colors.success)>>),
      Piece("- Error: ${...}", <<formatColorForPrompt(colors.error)>>),
      Piece("- Warning: ${...}", <<formatColorForPrompt(colors.warning)>>),
      Piece("Use Background (${colors.background}) for page backgrounds.", <<colors.background>>),
      Line("Use fontFamily: \"Inter\", fontWeight: 400 or 700.")>>

\* lines 211-243
PromptTail ==
    <<Line("## Input Fields Example (using tokens)"),
      Line("For text input fields, use a FRAME with design tokens:"),
      Line("## Important Rules"),
      Line("1. ONLY output valid JSON - no markdown code blocks, no explanations"),
      Line("2. The root object should have \"name\" and \"children\" properties"),
      Line("3. Every FRAME must have primaryAxisSizingMode and counterAxisSizingMode"),
      Line("4. Use realistic content (not \"Lorem ipsum\")"),
      Line("5. Ensure good touch targets (minimum 44px for buttons)"),
      Line("6. counterAxisAlignItems can ONLY be: \"MIN\", \"CENTER\", \"MAX\""),
      Line("7. Max 3-4 levels of nesting to avoid truncation"),
      Line("8. ALWAYS use design tokens - colorVariable, paddingVariable, itemSpacingVariable, textStyleName")>>

buildSystemPrompt(viewport, designSystem, contextInstructions, customColors) ==
    PromptHead(viewport)
    \o (IF hasDesignSystem(designSystem) THEN TokenMode(designSystem)
        ELSE PaletteMode(IF customColors.given THEN customColors.colors
                         ELSE DEFAULT_COLOR_PALETTE))
    \o (IF HasText(contextInstructions)
        THEN <<Piece("## Additional Design Requirements ${contextInstructions}",
                     <<contextInstructions>>)>>
        ELSE <<>>)
    \o PromptTail

----------------------------------------------------------------------------
(* The selection serializer (plugin/serializer.ts).  A property of a host  *)
(* node that the renderer has not assigned holds the host's default; a     *)
(* property of the result whose value is undefined is left out.            *)

White == Rgb(10, 10, 10)

Visible(paint) == ~(Has(paint, "visible") /\ paint.visible = FALSE)

\* { type: 'SOLID', color: {r, g, b}, opacity: fill.opacity }
SerializedSolid(paint) ==
    SetIfDefined([type |-> "SOLID", color |-> toRGB(OrElse(paint, "color", White))],
                 paint, "opacity")

serializeFills(fills) ==
    LET kept == SelectSeq(fills, LAMBDA fill :
                    Visible(fill) /\ fill.type \in {"SOLID", "GRADIENT_LINEAR"})
    IN  [i \in 1..Len(kept) |->
            IF kept[i].type = "SOLID" THEN SerializedSolid(kept[i])
            ELSE [type |-> "GRADIENT_LINEAR",
                  gradientStops |->
                      [k \in 1..Len(kept[i].gradientStops) |->
                          [position |-> kept[i].gradientStops[k].position,
                           color |-> kept[i].gradientStops[k].color]]]]

serializeStrokes(strokes) ==
    LET kept == SelectSeq(strokes, LAMBDA stroke : Visible(stroke) /\ stroke.type = "SOLID")
    IN  [i \in 1..Len(kept) |-> SerializedSolid(kept[i])]

serializeEffects(effects) ==
    LET kept == SelectSeq(effects, LAMBDA effect :
                    Visible(effect) /\ effect.type \in {"DROP_SHADOW", "INNER_SHADOW",
                                                        "LAYER_BLUR", "BACKGROUND_BLUR"})
    IN  [i \in 1..Len(kept) |->
            IF kept[i].type \in {"DROP_SHADOW", "INNER_SHADOW"}
            THEN [type |-> kept[i].type, color |-> kept[i].color, offset |-> kept[i].offset,
                  radius |-> kept[i].radius, spread |-> kept[i].spread]
            ELSE [type |-> kept[i].type, radius |-> kept[i].radius]]

\* weights[style] || 400
getFontWeight(style) ==
    CASE style = "Thin" -> 100
      [] style = "ExtraLight" -> 200
      [] style = "Light" -> 300
      [] style = "Regular" -> 400
      [] style = "Medium" -> 500
      [] style = "SemiBold" -> 600
      [] style = "Bold" -> 700
      [] style = "ExtraBold" -> 800
      [] style = "Black" -> 900
      [] OTHER -> 400

\* result.field = value when the list is not empty
SetIfAny(result, field, list) == IF Len(list) > 0 THEN Set(result, field, list) ELSE result

\* result.field = node.field unless it is the value that is left out
SetUnless(result, field, node, skipped) ==
    IF OrElse(node, field, skipped) # skipped THEN Set(result, field, node[field]) ELSE result

\* name, width and height of a node
Sized(type, node) ==
    Merge(type, [name |-> node.name, width |-> OrElse(node, "width", 100),
                 height |-> OrElse(node, "height", 100)])

\* lines 626-640 and 724-738
SerializeAutoLayout(result, frame) ==
    IF OrElse(frame, "layoutMode", "NONE") # "NONE"
    THEN LET laidOut ==
                 Merge(result, [layoutMode |-> frame.layoutMode,
                                primaryAxisAlignItems |-> OrElse(frame, "primaryAxisAlignItems", "MIN"),
                                counterAxisAlignItems |-> OrElse(frame, "counterAxisAlignItems", "MIN"),
                                itemSpacing |-> OrElse(frame, "itemSpacing", 0)])
         IN  IF \E side \in {"paddingTop", "paddingRight", "paddingBottom", "paddingLeft"} :
                    OrElse(frame, side, 0) # 0
             THEN Set(laidOut, "padding",
                      [top |-> OrElse(frame, "paddingTop", 0),
                       right |-> OrElse(frame, "paddingRight", 0),
                       bottom |-> OrElse(frame, "paddingBottom", 0),
                       left |-> OrElse(frame, "paddingLeft", 0)])
             ELSE laidOut
    ELSE result

\* fills, strokes, corner radius, effects and clipping of a frame
SerializeFrameLook(result, frame) ==
    LET filled == SetIfAny(result, "fills", serializeFills(frame.fills))
        stroked == SetIfAny(filled, "strokes", serializeStrokes(frame.strokes))
        rounded == IF OrElse(frame, "cornerRadius", 0) > 0
                   THEN Set(stroked, "cornerRadius", frame.cornerRadius)
                   ELSE stroked
        shaded == SetIfAny(rounded, "effects", serializeEffects(frame.effects))
    IN  IF OrElse(frame, "clipsContent", FALSE) THEN Set(shaded, "clipsContent", TRUE)
        ELSE shaded

\* layoutAlign and layoutGrow of a child of an auto-layout frame
SerializeLayoutChild(result, node) ==
    SetUnless(SetUnless(result, "layoutAlign", node, "INHERIT"), "layoutGrow", node, 0)

\* an instance serialized without the key of its main component
serializeInstanceWithoutKey(instance) ==
    SetUnless(SerializeLayoutChild(Sized([type |-> "INSTANCE"], instance), instance),
              "opacity", instance, 10)

serializeInstance(instance) ==
    LET result == Sized([type |-> "INSTANCE"], instance)
        keyed == IF Has(instance, "mainComponent")
                 THEN Set(result, "componentKey", instance.mainComponent.key)
                 ELSE result
    IN  SetUnless(SerializeLayoutChild(keyed, instance), "opacity", instance, 10)

serializeText(text) ==
    LET result == Merge(Sized([type |-> "TEXT"], text),
                        [characters |-> OrElse(text, "characters", ""),
                         fontFamily |-> text.fontName.family,
                         fontWeight |-> getFontWeight(text.fontName.style),
                         fontSize |-> OrElse(text, "fontSize", 12),
                         textAlignHorizontal |-> OrElse(text, "textAlignHorizontal", "LEFT"),
                         textAlignVertical |-> OrElse(text, "textAlignVertical", "TOP")])
        lined == IF OrElse(text, "lineHeight", [unit |-> "AUTO"]).unit # "AUTO"
                 THEN Set(result, "lineHeight", Set(text.lineHeight, "kind", "object"))
                 ELSE result
        spaced == IF OrElse(text, "letterSpacing", [value |-> 0]).value # 0
                  THEN Set(lined, "letterSpacing", text.letterSpacing.value)
                  ELSE lined
        decorated == SetUnless(spaced, "textDecoration", text, "NONE")
        filled == SetIfAny(decorated, "fills", serializeFills(text.fills))
    IN  SetUnless(SerializeLayoutChild(filled, text), "opacity", text, 10)

\* strokes and their weight
SerializeShapeStrokes(result, node) ==
    IF Len(serializeStrokes(node.strokes)) > 0
    THEN Merge(result, [strokes |-> serializeStrokes(node.strokes),
                        strokeWeight |-> OrElse(node, "strokeWeight", 1)])
    ELSE result

serializeRectangle(rect) ==
    LET filled == SetIfAny(Sized([type |-> "RECTANGLE"], rect), "fills",
                           serializeFills(rect.fills))
        stroked == SerializeShapeStrokes(filled, rect)
        rounded == IF OrElse(rect, "cornerRadius", 0) > 0
                   THEN Set(stroked, "cornerRadius", rect.cornerRadius)
                   ELSE stroked
        faded == SetUnless(rounded, "opacity", rect, 10)
    IN  SerializeLayoutChild(SetIfAny(faded, "effects", serializeEffects(rect.effects)), rect)

serializeEllipse(ellipse) ==
    LET filled == SetIfAny(Sized([type |-> "ELLIPSE"], ellipse), "fills",
                           serializeFills(ellipse.fills))
        faded == SetUnless(SerializeShapeStrokes(filled, ellipse), "opacity", ellipse, 10)
    IN  SetIfAny(faded, "effects", serializeEffects(ellipse.effects))

serializeLine(line) ==
    SetUnless(SerializeShapeStrokes([type |-> "LINE", name |-> line.name,
                                     width |-> OrElse(line, "width", 100)], line),
              "opacity", line, 10)

RECURSIVE serializeNode(_), SerializeChildren(_, _)

\* frame.children.map(child => serializeNode(child)).filter(Boolean), set
\* when it is not empty
SerializeChildren(result, node) ==
    SetIfAny(result, "children",
             SelectSeq([i \in 1..Len(node.children) |-> serializeNode(node.children[i])],
                       LAMBDA child : child # NullValue))

serializeFrameElement(frame) ==
    LET positioned ==
            IF OrElse(frame, "layoutPositioning", "AUTO") = "ABSOLUTE"
            THEN Merge(Sized([type |-> "FRAME"], frame),
                       [layoutPositioning |-> "ABSOLUTE", x |-> OrElse(frame, "x", 0),
                        y |-> OrElse(frame, "y", 0)])
            ELSE Sized([type |-> "FRAME"], frame)
        laidOut == SerializeLayoutChild(SerializeAutoLayout(positioned, frame), frame)
        faded == SetUnless(SerializeFrameLook(laidOut, frame), "opacity", frame, 10)
    IN  SerializeChildren(faded, frame)

serializeGroup(group) ==
    SerializeChildren(SetUnless(Sized([type |-> "FRAME"], group), "opacity", group, 10), group)

serializeNode(node) ==
    CASE node.type \in {"FRAME", "COMPONENT", "COMPONENT_SET"} -> serializeFrameElement(node)
      [] node.type = "INSTANCE" -> serializeInstance(node)
      [] node.type = "TEXT" -> serializeText(node)
      [] node.type = "RECTANGLE" -> serializeRectangle(node)
      [] node.type = "ELLIPSE" -> serializeEllipse(node)
      [] node.type = "LINE" -> serializeLine(node)
      [] node.type = "GROUP" -> serializeGroup(node)
      [] OTHER -> NullValue

serializeFrameNode(frame) ==
    SerializeChildren(SerializeFrameLook(SerializeAutoLayout(Sized(Absent, frame), frame),
                                         frame),
                      frame)

\* selection is figma.currentPage.selection
serializeSelection(selection) ==
    IF Len(selection) = 0 THEN NullValue
    ELSE IF selection[1].type \in {"FRAME", "COMPONENT", "INSTANCE"}
    THEN serializeFrameNode(selection[1])
    ELSE SetIfAny([name |-> "Selection", width |-> OrElse(selection[1], "width", 100),
                   height |-> OrElse(selection[1], "height", 100)],
                  "children",
                  SelectSeq(<<serializeNode(selection[1])>>, LAMBDA child : child # NullValue))

----------------------------------------------------------------------------
(* Design-system extraction (plugin/designSystem.ts): the alias chains of  *)
(* resolveColorValue and resolveNumberValue.  Both read the first mode of  *)
(* the variable and follow aliases with the loop of resolveSpacingVariable.*)

isVariableAlias(value) == value.kind = "alias"

\* a loop condition without the bound on the depth
AliasLoopUnbounded(value, depth) == isVariableAlias(value)

\* while (isVariableAlias(value) && depth < 10)
AliasLoopRuns(value, depth) == isVariableAlias(value) /\ depth < MaxAliasDepth

\* typeof value === 'object' && value !== null && 'r' in value
AsRGB(value) == IF value.kind = "color" THEN value ELSE NullValue

\* typeof value === 'number'
AsNumber(value) == IF value.kind = "number" THEN value ELSE NullValue

resolveColorValue(variable, collections) ==
    AsRGB(FollowAlias(FirstModeValue(variable), 0, collections))

resolveNumberValue(variable, collections) ==
    AsNumber(FollowAlias(FirstModeValue(variable), 0, collections))

\* some pattern is included in name
SomeIncluded(patterns, name) == \E i \in 1..Len(patterns) : Includes(name, patterns[i])

primitivePatterns ==
    <<<<"p", "r", "i", "m", "i", "t", "i", "v", "e">>, <<"b", "a", "s", "e">>,
      <<"c", "o", "r", "e">>, <<"f", "o", "u", "n", "d", "a", "t", "i", "o", "n">>,
      <<"s", "c", "a", "l", "e">>, <<"p", "a", "l", "e", "t", "t", "e">>,
      <<"b", "r", "a", "n", "d">>>>

tokenPatterns ==
    <<<<"s", "e", "m", "a", "n", "t", "i", "c">>, <<"t", "o", "k", "e", "n">>,
      <<"t", "h", "e", "m", "e">>, <<"a", "l", "i", "a", "s">>,
      <<"c", "o", "m", "p", "o", "n", "e", "n", "t">>>>

isTokenCollection(collectionName) ==
    LET name == ToLowerCase(collectionName)
    IN  IF name = <<"t", "o", "k", "e", "n", "s">> \/ name = <<"t", "o", "k", "e", "n">> THEN TRUE
        ELSE IF SomeIncluded(primitivePatterns, name) THEN FALSE
        ELSE SomeIncluded(tokenPatterns, name)

semanticPatterns ==
    <<<<"b", "a", "c", "k", "g", "r", "o", "u", "n", "d">>,
      <<"s", "u", "r", "f", "a", "c", "e">>, <<"t", "e", "x", "t">>,
      <<"f", "o", "r", "e", "g", "r", "o", "u", "n", "d">>,
      <<"b", "o", "r", "d", "e", "r">>, <<"s", "t", "r", "o", "k", "e">>,
      <<"a", "c", "t", "i", "o", "n">>, <<"b", "u", "t", "t", "o", "n">>,
      <<"i", "n", "p", "u", "t">>, <<"c", "a", "r", "d">>, <<"m", "o", "d", "a", "l">>,
      <<"o", "v", "e", "r", "l", "a", "y">>, <<"p", "r", "i", "m", "a", "r", "y">>,
      <<"s", "e", "c", "o", "n", "d", "a", "r", "y">>,
      <<"t", "e", "r", "t", "i", "a", "r", "y">>, <<"s", "u", "c", "c", "e", "s", "s">>,
      <<"e", "r", "r", "o", "r">>, <<"w", "a", "r", "n", "i", "n", "g">>,
      <<"i", "n", "f", "o">>, <<"d", "i", "s", "a", "b", "l", "e", "d">>,
      <<"h", "o", "v", "e", "r">>, <<"p", "r", "e", "s", "s", "e", "d">>,
      <<"f", "o", "c", "u", "s", "e", "d">>, <<"a", "c", "t", "i", "v", "e">>,
      <<"s", "e", "l", "e", "c", "t", "e", "d">>>>

isSemanticVariableName(variableName) == SomeIncluded(semanticPatterns, ToLowerCase(variableName))

\* const isToken = collectionIsTokens || valueIsAlias || nameIsSemantic
IsToken(collection, variable) ==
    \/ isTokenCollection(collection.name)
    \/ isVariableAlias(FirstModeValue(variable))
    \/ isSemanticVariableName(variable.name)

\* Math.round(channel * 255).toString(16).padStart(2, '0'), the channel in tenths
HexByte(tenths) ==
    LET Hex(byte) == <<LowerHex[(byte \div 16) + 1], LowerHex[(byte % 16) + 1]>>
    IN  Hex((51 * tenths + 1) \div 2)

rgbToHex(color) == <<"#">> \o HexByte(color.r) \o HexByte(color.g) \o HexByte(color.b)

VariableInfo(collection, variable, value) ==
    [id |-> variable.id, name |-> variable.name, collection |-> collection.name,
     value |-> value, isToken |-> IsToken(collection, variable)]

\* the variables of the collections in the order the two loops read them,
\* each with its collection
RECURSIVE VariablesRead(_, _)
VariablesRead(collections, n) ==
    IF n = 0 THEN <<>>
    ELSE VariablesRead(collections, n - 1)
         \o [j \in 1..Len(collections[n].variables) |->
                [collection |-> collections[n], variable |-> collections[n].variables[j]]]

\* the four lists after the first n variables were read
NoLists == [colorTokens |-> <<>>, colorPrimitives |-> <<>>, spacingTokens |-> <<>>,
            spacingPrimitives |-> <<>>]

\* lines 1276-1311: the list an extracted variable is pushed to
Pushed(lists, info, tokens, primitives) ==
    IF info.isToken THEN [lists EXCEPT ![tokens] = Append(@, info)]
    ELSE [lists EXCEPT ![primitives] = Append(@, info)]

RECURSIVE ExtractLoop(_, _, _)
ExtractLoop(read, n, collections) ==
    IF n = 0 THEN NoLists
    ELSE LET before == ExtractLoop(read, n - 1, collections)
             collection == read[n].collection
             variable == read[n].variable
             Color(resolved) ==
                 IF resolved = NullValue THEN before
                 ELSE Pushed(before, VariableInfo(collection, variable, rgbToHex(resolved.color)),
                             "colorTokens", "colorPrimitives")
             Spacing(resolved) ==
                 IF resolved = NullValue THEN before
                 ELSE Pushed(before, VariableInfo(collection, variable, resolved.n),
                             "spacingTokens", "spacingPrimitives")
         IN  IF variable.resolvedType = "COLOR"
             THEN Color(resolveColorValue(variable, collections))
             ELSE IF variable.resolvedType = "FLOAT"
             THEN Spacing(resolveNumberValue(variable, collections))
             ELSE before

\* tokens.length > 0 ? tokens.slice(0, limit) : primitives.slice(0, limit)
Exposed(tokens, primitives, limit) ==
    IF Len(tokens) > 0 THEN First(tokens, limit) ELSE First(primitives, limit)

\* extractVariables: reads is the number of variables read before a host call
\* throws (all of them when none does); the catch keeps what was collected
extractVariables(collections, reads) ==
    LET Prioritized(lists) ==
            [colorVariables |-> Exposed(lists.colorTokens, lists.colorPrimitives,
                                        MAX_COLOR_VARIABLES),
             spacingVariables |-> Exposed(lists.spacingTokens, lists.spacingPrimitives,
                                          MAX_SPACING_VARIABLES)]
    IN  Prioritized(ExtractLoop(VariablesRead(collections, Len(collections)), reads, collections))

----------------------------------------------------------------------------
(* Idle values: what a part of the state holds while a specification       *)
(* exercises another part.                                                 *)

vars == <<rawText, srcValue, fenced, parseOutcome, hostTextStyles, hostCollections,
          textStyleCache, colorVariableCache, spacingVariableCache, lookup,
          msgDesign, msgViewport, rendered, loadedFonts, hostFonts, hostCalls,
          provider, response, inFlight, sent, buffer, fullText, progress, generation,
          isGenerating, submits, toPlugin, toUI, handlers, answers, hostLog, page, ui,
          promptArgs, systemPrompt, selectionData, rerendered, resolving, extracted>>

NoLookup == [fn |-> "none", name |-> <<>>, result |-> NotFound]

ParseIdle ==
    /\ rawText = <<>>
    /\ srcValue = JLit("null")
    /\ fenced = FALSE
    /\ parseOutcome = NotParsed

HostEmpty ==
    /\ hostTextStyles = <<>>
    /\ hostCollections = <<>>

IndexIdle ==
    /\ textStyleCache = NullCache
    /\ colorVariableCache = NullCache
    /\ spacingVariableCache = NullCache
    /\ lookup = NoLookup

NotRendered == [status |-> "idle"]

RenderIdle ==
    /\ msgDesign = [name |-> ""]
    /\ msgViewport = [width |-> 0, height |-> 0]
    /\ rendered = NotRendered
    /\ loadedFonts = {}
    /\ hostFonts = {}
    /\ hostCalls = <<>>

NoResponse == [ok |-> FALSE, status |-> 0, text |-> <<>>, body |-> FALSE]

NoLocals == [fullText |-> <<>>, progress |-> <<>>, broke |-> FALSE]

StreamIdle ==
    /\ provider = "claude"
    /\ response = NoResponse
    /\ inFlight = <<>>
    /\ sent = <<>>
    /\ buffer = <<>>
    /\ fullText = <<>>
    /\ progress = <<>>
    /\ generation = [state |-> "idle"]

SessionIdle ==
    /\ isGenerating = FALSE
    /\ submits = <<>>
    /\ toPlugin = <<>>
    /\ toUI = <<>>
    /\ handlers = {}
    /\ answers = <<>>
    /\ hostLog = <<>>
    /\ page = EmptyPage
    /\ ui = UiIdle

NoPromptArgs == [viewport |-> "none"]

PromptIdle ==
    /\ promptArgs = NoPromptArgs
    /\ systemPrompt = <<>>

RoundTripIdle ==
    /\ selectionData = [status |-> "idle"]
    /\ rerendered = NotRendered

NotResolving == [status |-> "idle"]

NotExtracted == [status |-> "idle"]

ExtractIdle ==
    /\ resolving = NotResolving
    /\ extracted = NotExtracted

PipelineIdle == StreamIdle /\ SessionIdle /\ PromptIdle /\ RoundTripIdle /\ ExtractIdle

\* the text the provider delivered: a serialization, possibly fenced, cut at k
Delivered(v, inFence) == IF inFence THEN InFence(Stringify(v)) ELSE Stringify(v)

ParseInit ==
    /\ srcValue \in ParseValues
    /\ fenced \in BOOLEAN
    /\ rawText \in {SubSeq(Delivered(srcValue, fenced), 1, k) :
                       k \in 0..Len(Delivered(srcValue, fenced))}
    /\ parseOutcome = NotParsed
    /\ HostEmpty
    /\ IndexIdle
    /\ RenderIdle
    /\ PipelineIdle

\* the UI hands the accumulated response text to parseDesignJson
ParseDesignJson ==
    /\ parseOutcome = NotParsed
    /\ parseOutcome' = parseDesignJson(rawText)
    /\ UNCHANGED <<rawText, srcValue, fenced, hostVars, cacheVars, lookup, renderVars, pipelineVars>>

SpecParse == ParseInit /\ [][ParseDesignJson]_vars

----------------------------------------------------------------------------
(* Lookups against an index built from a host document with up to MaxNames *)
(* styles and variables.                                                   *)

MaxNames == 2

nMd == <<"m", "d">>
nMD == <<"M", "D">>
nMD2 == <<"M", "D", "2">>
nXMd == <<"x", "/", "m", "d">>
nTypographyBodyRegular ==
    <<"T", "y", "p", "o", "g", "r", "a", "p", "h", "y", "/", "B", "o", "d", "y", "/",
      "R", "e", "g", "u", "l", "a", "r">>
nBody == <<"b", "o", "d", "y">>

HostNames == {nMd, nMD, nMD2, nXMd, nTypographyBodyRegular}
QueryNames == {nMd, <<"M", "d">>, <<"M", "D", "2", "x">>, nBody, <<"z", "z">>}

\* the sequences of distinct host names of length at most n
NameLists(n) ==
    {l \in UNION {[1..k -> HostNames] : k \in 0..n} :
        \A i, j \in 1..Len(l) : i # j => l[i] # l[j]}

StyleNamed(name) ==
    [id |-> <<"S", ":">> \o name, name |-> name, fontName |-> Font(<<"Roboto">>, "Regular")]

Variable(type, name, value) ==
    [id |-> <<type, ":">> \o name, name |-> name, resolvedType |-> type,
     valuesByMode |-> <<value>>]

ColorNamed(name) == Variable("COLOR", name, ColorValue(Rgb(0, 0, 10)))

FloatNamed(name) == Variable("FLOAT", name, NumberValue(16))

\* one collection "S" holding a colour and a number variable per name
CollectionOf(names) ==
    [name |-> <<"S">>,
     variables |-> [i \in 1..(2 * Len(names)) |->
                       IF i % 2 = 1 THEN ColorNamed(names[(i + 1) \div 2])
                       ELSE FloatNamed(names[i \div 2])]]

NoFaults == [styles |-> FALSE, variables |-> FALSE, bind |-> FALSE, components |-> FALSE]

LookupInit ==
    /\ ParseIdle
    /\ \E names \in NameLists(MaxNames) :
          /\ hostTextStyles = [i \in 1..Len(names) |-> StyleNamed(names[i])]
          /\ hostCollections = <<CollectionOf(names)>>
    /\ IndexIdle
    /\ RenderIdle
    /\ PipelineIdle

\* renderDesign begins by (re)building the caches from the host document
InitializeCaches ==
    /\ \E faults \in {f \in [styles : BOOLEAN, variables : BOOLEAN, bind : {FALSE},
                               components : {FALSE}] : ~(f.styles /\ f.variables)} :
          LET built == initializeCaches(hostTextStyles, hostCollections, faults)
          IN  /\ textStyleCache' = built.textStyles
              /\ colorVariableCache' = built.colors
              /\ spacingVariableCache' = built.spacing
    /\ lookup' = NoLookup
    /\ UNCHANGED <<parseVars, hostVars, renderVars, pipelineVars>>

FindTextStyle ==
    /\ \E name \in QueryNames :
          lookup' = [fn |-> "findTextStyle", name |-> name,
                     result |-> findTextStyleKey(textStyleCache, name)]
    /\ UNCHANGED <<parseVars, hostVars, cacheVars, renderVars, pipelineVars>>

FindColorVariable ==
    /\ \E name \in QueryNames :
          lookup' = [fn |-> "findColorVariable", name |-> name,
                     result |-> findColorVariableKey(colorVariableCache, name)]
    /\ UNCHANGED <<parseVars, hostVars, cacheVars, renderVars, pipelineVars>>

FindSpacingVariable ==
    /\ \E name \in QueryNames :
          lookup' = [fn |-> "findSpacingVariable", name |-> name,
                     result |-> findSpacingVariableKey(spacingVariableCache, name)]
    /\ UNCHANGED <<parseVars, hostVars, cacheVars, renderVars, pipelineVars>>

LookupNext ==
    \/ InitializeCaches
    \/ FindTextStyle
    \/ FindColorVariable
    \/ FindSpacingVariable

SpecLookup == LookupInit /\ [][LookupNext]_vars

----------------------------------------------------------------------------
(* Text elements rendered one after another in one plugin session: the     *)
(* loadedFonts set and the fonts of the host persist between renders, and  *)
(* each loadFontAsync call succeeds or fails on its own.                   *)

nMissing == <<"z", "z">>
Roboto == <<"Roboto">>


TextElements ==
    {Merge([type |-> "TEXT", characters |-> "Hi"], Merge(style, family)) :
        style \in {Absent, [textStyleName |-> nBody], [textStyleName |-> nMissing]},
        family \in {Absent, [fontFamily |-> Roboto, fontWeight |-> 700]}}
    \union {[type |-> "TEXT", name |-> "Label", fontFamily |-> Inter, fontWeight |-> 450,
             fontSize |-> 14, lineHeight |-> NumberValue(20), width |-> 120]}

HostComponents == {[key |-> "button", name |-> "Button", properties |-> {"label"}]}

TextHostStyles == <<StyleNamed(nTypographyBodyRegular)>>

NewWorld == [loadedFonts |-> loadedFonts, hostFonts |-> hostFonts, calls |-> <<>>]

CachedEnvironment(faults, failedLoads) ==
    [textStyles |-> textStyleCache, colors |-> colorVariableCache,
     spacing |-> spacingVariableCache, collections |-> hostCollections,
     components |-> HostComponents, faults |-> faults, failedLoads |-> failedLoads]

Outcome(threw, node, input, faults) ==
    [status |-> IF threw THEN "threw" ELSE "returned", frame |-> node, input |-> input,
     faults |-> faults]

TextInit ==
    /\ ParseIdle
    /\ hostTextStyles = TextHostStyles
    /\ hostCollections = <<>>
    /\ IndexIdle
    /\ RenderIdle
    /\ PipelineIdle

\* renderElement reaches a TEXT element
RenderText ==
    /\ \E element \in TextElements, failedLoads \in SUBSET LoadSites :
          \E done \in {renderText(element, NewWorld,
                                  CachedEnvironment(NoFaults, failedLoads))} :
              /\ msgDesign' = element
              /\ rendered' = Outcome(done.threw, done.node, element, NoFaults)
              /\ loadedFonts' = done.world.loadedFonts
              /\ hostFonts' = done.world.hostFonts
              /\ hostCalls' = done.world.calls
    /\ UNCHANGED <<parseVars, hostVars, cacheVars, lookup, msgViewport, pipelineVars>>

TextNext ==
    \/ InitializeCaches
    \/ RenderText

SpecText == TextInit /\ [][TextNext]_vars

----------------------------------------------------------------------------
(* Documents rendered into a host document that holds a colour and a       *)
(* number variable, an alias of each, and a number alias that never ends.  *)

MaxKids == 2

nBrand == <<"b", "r", "a", "n", "d">>
nAccent == <<"a", "c", "c", "e", "n", "t">>
nGap == <<"g", "a", "p">>
nLoop == <<"l", "o", "o", "p">>

Blue == Rgb(0, 0, 10)
Red == Rgb(10, 0, 0)

RenderCollections ==
    << [name |-> <<"S">>,
        variables |-> << Variable("COLOR", nBrand, ColorValue(Blue)),
                         Variable("COLOR", nAccent, AliasValue(<<"COLOR", ":">> \o nBrand)),
                         Variable("FLOAT", nMd, NumberValue(16)),
                         Variable("FLOAT", nGap, AliasValue(<<"FLOAT", ":">> \o nMd)),
                         Variable("FLOAT", nLoop, AliasValue(<<"FLOAT", ":">> \o nLoop)) >>] >>

Viewports == {[width |-> 1440, height |-> 900], [width |-> 768, height |-> 1024]}

\* the host calls that fail during one render
RenderFaults ==
    {[faults |-> NoFaults, failedLoads |-> {}],
     [faults |-> [NoFaults EXCEPT !.bind = TRUE], failedLoads |-> {}],
     [faults |-> [NoFaults EXCEPT !.variables = TRUE], failedLoads |-> {}],
     [faults |-> [NoFaults EXCEPT !.styles = TRUE, !.components = TRUE],
      failedLoads |-> {"style", "requested"}],
     [faults |-> NoFaults, failedLoads |-> LoadSites]}

Card == [type |-> "FRAME", name |-> "Card"]

\* frames that differ in their layout mode and alignment
LayoutElements ==
    {Merge(Card, Merge(mode, Merge(cross, size))) :
        mode \in {Absent} \union {[layoutMode |-> m] : m \in {"NONE", "HORIZONTAL", "VERTICAL"}},
        cross \in {Absent} \union
                  {[counterAxisAlignItems |-> a] : a \in {"", "MIN", "BASELINE", "STRETCH"}},
        size \in {Absent, [width |-> 200, height |-> 120]}}

\* frames that differ in their sizing modes
SizingElements ==
    {Merge(Card, Merge(mode, Merge(primary, Merge(counter, size)))) :
        mode \in {[layoutMode |-> m] : m \in {"NONE", "VERTICAL"}},
        primary \in {Absent} \union
                    {[primaryAxisSizingMode |-> m] : m \in {"", "HUG", "FIXED", "FILL", "AUTO"}},
        counter \in {Absent} \union
                    {[counterAxisSizingMode |-> m] : m \in {"HUG", "FIXED", "FILL", "AUTO"}},
        size \in {Absent, [width |-> 200, height |-> 120]}}

Pad(n) == [top |-> n, right |-> n, bottom |-> n, left |-> n]

\* frames that differ in their spacing
SpacingElements ==
    {Merge(Card, Merge(mode, spacing)) :
        mode \in {Absent, [layoutMode |-> "VERTICAL", primaryAxisAlignItems |-> "CENTER"]},
        spacing \in {[itemSpacing |-> 12], [itemSpacingVariable |-> nMissing],
                     [padding |-> Pad(8)], [paddingVariable |-> nGap],
                     [itemSpacingVariable |-> nMissing, itemSpacing |-> 12,
                      paddingVariable |-> nMissing, padding |-> Pad(8)]}
                    \union {[itemSpacingVariable |-> n, itemSpacing |-> 12] :
                               n \in {<<>>, nMd, nGap, nLoop, nMissing}}
                    \union {[paddingVariable |-> n, padding |-> Pad(8)] :
                               n \in {nMd, nLoop, nMissing}}}

Literal == [type |-> "SOLID", color |-> Red]

\* a paint that is not to be shown
Hidden == [type |-> "SOLID", color |-> Black, visible |-> FALSE]

FillLists ==
    {<<>>, <<Literal>>, <<[type |-> "SOLID", colorVariable |-> nBrand]>>,
     <<[Literal EXCEPT !.color = Merge(Red, [a |-> 5])]>>,
     <<Merge(Literal, [visible |-> FALSE])>>,
     <<[type |-> "SOLID", colorVariable |-> nBrand], Literal>>,
     <<Merge(Hidden, [colorVariable |-> nBrand]), Literal>>,
     <<[type |-> "GRADIENT_LINEAR",
        gradientStops |-> <<[position |-> 0, color |-> Red],
                            [position |-> 1, color |-> Merge(Blue, [a |-> 5])]>>]>>}
    \union {<<Merge(Literal, [colorVariable |-> n])>> : n \in {nBrand, nAccent, nMissing}}

StrokeLists ==
    {<<Literal>>, <<Merge(Literal, [opacity |-> 5])>>, <<Hidden>>,
     <<Merge(Hidden, [colorVariable |-> nBrand]), Literal>>}
    \union {<<Merge(Literal, [colorVariable |-> n])>> : n \in {nBrand, nAccent, nMissing}}

\* frames and rectangles that differ in their paints
PaintElements ==
    {Merge([type |-> t, name |-> "Box"], paints) :
        t \in {"FRAME", "RECTANGLE"},
        paints \in {[fills |-> l] : l \in FillLists}
                   \union {[strokes |-> l, strokeWeight |-> 2] : l \in StrokeLists}
                   \union {[fills |-> <<Merge(Literal, [colorVariable |-> nAccent])>>,
                            strokes |-> <<Merge(Literal, [colorVariable |-> nBrand])>>]}}

Shadow == [type |-> "DROP_SHADOW", color |-> Merge(Black, [a |-> 2])]

\* a frame whose five named references are in no cache and no library
Dangling ==
    [type |-> "FRAME", name |-> "Dangling", layoutMode |-> "VERTICAL",
     paddingVariable |-> nMissing, itemSpacingVariable |-> nMissing,
     fills |-> <<[type |-> "SOLID", colorVariable |-> nMissing]>>,
     children |-> <<[type |-> "TEXT", characters |-> "Hi", textStyleName |-> nMissing],
                    [type |-> "INSTANCE", componentKey |-> "unknown"]>>]

\* one element of every other kind
OtherElements ==
    {[type |-> "TEXT", characters |-> "Hi"],
     [type |-> "TEXT", characters |-> "Hi", textStyleName |-> nBody,
      fills |-> <<Merge(Literal, [colorVariable |-> nBrand])>>, layoutAlign |-> "STRETCH"],
     [type |-> "ELLIPSE", width |-> 10, height |-> 10, fills |-> <<Literal>>,
      strokes |-> <<Literal>>, opacity |-> 5],
     [type |-> "LINE", width |-> 40],
     [type |-> "LINE", strokes |-> <<Literal>>, strokeWeight |-> 2],
     [type |-> "INSTANCE", componentKey |-> "button", width |-> 80, height |-> 32,
      componentProperties |-> [label |-> "Go", size |-> "L"], layoutGrow |-> 1],
     [type |-> "INSTANCE", componentKey |-> "unknown",
      children |-> <<[type |-> "TEXT", characters |-> "Hi"]>>],
     [type |-> "INSTANCE", name |-> "Slot"],
     [type |-> "INSTANCE", componentKey |-> "unknown", layoutMode |-> "VERTICAL",
      children |-> <<[type |-> "RECTANGLE"], [type |-> "ELLIPSE"], [type |-> "LINE"]>>],
     [type |-> "INSTANCE", componentKey |-> "button",
      children |-> <<[type |-> "LINE"], [type |-> "INSTANCE", componentKey |-> "button"]>>],
     [type |-> "INSTANCE", componentKey |-> "",
      children |-> <<[type |-> "ELLIPSE"], [type |-> "TEXT", characters |-> "Hi"]>>],
     [type |-> "VECTOR", name |-> "Icon", layoutMode |-> "HORIZONTAL"],
     [type |-> "RECTANGLE", width |-> 20, height |-> 20, cornerRadius |-> 4,
      effects |-> <<Shadow, [type |-> "LAYER_BLUR", visible |-> FALSE],
                    [type |-> "INNER_SHADOW", color |-> Black, radius |-> 2],
                    [type |-> "BACKGROUND_BLUR"], [type |-> "LAYER_BLUR", radius |-> 6],
                    [type |-> "DROP_SHADOW"]>>,
      layoutAlign |-> "STRETCH", layoutGrow |-> 1],
     [type |-> "FRAME", layoutMode |-> "VERTICAL", layoutPositioning |-> "ABSOLUTE",
      x |-> 4, y |-> 8, clipsContent |-> FALSE, opacity |-> 8, cornerRadius |-> 6,
      strokeWeight |-> 1, effects |-> <<Shadow>>, layoutAlign |-> "STRETCH",
      layoutGrow |-> 1],
     [type |-> "RECTANGLE",
      effects |-> <<Shadow, [type |-> "INNER_SHADOW", color |-> Black, visible |-> FALSE]>>],
     Dangling}

Elements ==
    LayoutElements \union SizingElements \union SpacingElements \union PaintElements
    \union OtherElements

\* the element as a document: a document has no type
AsDesign(element) == [f \in DOMAIN element \ {"type"} |-> element[f]]

\* the children of the documents with several children
Kids ==
    {[type |-> "TEXT", characters |-> "Hi"],
     [type |-> "FRAME", layoutMode |-> "HORIZONTAL", counterAxisAlignItems |-> "STRETCH",
      children |-> <<[type |-> "RECTANGLE"]>>],
     [type |-> "FRAME", counterAxisAlignItems |-> "STRETCH", primaryAxisSizingMode |-> "FIXED"]}

KidLists == UNION {[1..n -> Kids] : n \in 2..MaxKids}

Designs ==
    {AsDesign(e) : e \in {f \in Elements : f.type = "FRAME"}}
    \union {[name |-> "Screen", children |-> <<e>>] : e \in Elements}
    \union {[name |-> "", width |-> 375, height |-> 812, children |-> kids] : kids \in KidLists}

RenderInit ==
    /\ ParseIdle
    /\ hostTextStyles = TextHostStyles
    /\ hostCollections = RenderCollections
    /\ IndexIdle
    /\ msgDesign \in Designs
    /\ msgViewport \in Viewports
    /\ rendered = NotRendered
    /\ loadedFonts = {}
    /\ hostFonts = {}
    /\ hostCalls = <<>>
    /\ PipelineIdle

\* the plugin renders the document of a render-design message, once
RenderDesign ==
    /\ rendered = NotRendered
    /\ \E fault \in RenderFaults :
          \E done \in {renderDesign(msgDesign, msgViewport,
                                    [textStyles |-> hostTextStyles,
                                     collections |-> hostCollections,
                                     components |-> HostComponents,
                                     center |-> [x |-> 0, y |-> 0],
                                     faults |-> fault.faults,
                                     failedLoads |-> fault.failedLoads],
                                    NewWorld)} :
              /\ msgDesign' = done.design
              /\ rendered' = Outcome(done.threw, done.frame, msgDesign, fault.faults)
              /\ textStyleCache' = done.caches.textStyles
              /\ colorVariableCache' = done.caches.colors
              /\ spacingVariableCache' = done.caches.spacing
              /\ loadedFonts' = done.world.loadedFonts
              /\ hostFonts' = done.world.hostFonts
              /\ hostCalls' = done.world.calls
    /\ UNCHANGED <<parseVars, hostVars, lookup, msgViewport, pipelineVars>>

SpecRender == RenderInit /\ [][RenderDesign]_vars

----------------------------------------------------------------------------
(* One generation call against a provider that sends up to MaxEvents       *)
(* server-sent events, cut into chunks at the ends of lines or in the      *)
(* middle of a line.  The text fragments of a response are the pieces of   *)
(* one document, in order.                                                 *)

MaxEvents == 3

\* the pieces of the document {"name":"X"} as the provider streams it
Fragments == <<<<"{", DQ, "n", "a", "m", "e", DQ, ":">>, <<DQ, "X", DQ, "}">>>>

TextEvent(text) == [kind |-> "text", text |-> text]
StopEvent == [kind |-> "stop"]
ErrorEvent == [kind |-> "error"]
OtherEvent == [kind |-> "other"]

\* the fragments of the text events among the first n events
RECURSIVE TextsOf(_, _)
TextsOf(events, n) ==
    IF n = 0 THEN <<>>
    ELSE IF events[n].kind = "text" THEN Append(TextsOf(events, n - 1), events[n].text)
    ELSE TextsOf(events, n - 1)

\* the events the provider may send next: the next piece of the document, an
\* empty piece, the end of the message, an error, a keep-alive
NextEvents(before) ==
    {TextEvent(Fragments[(Len(SelectSeq(TextsOf(before, Len(before)),
                                        LAMBDA t : t # <<>>)) % Len(Fragments)) + 1]),
     TextEvent(<<>>), StopEvent, ErrorEvent, OtherEvent}

Obj1(key, val) == JObj(<<JMember(key, val)>>)

\* the JSON of an event in the provider's wire format
EventValue(api, event) ==
    IF api = "claude"
    THEN CASE event.kind = "text" ->
                  JObj(<<JMember(kType, JStr(sContentBlockDelta)),
                         JMember(kDelta, Obj1(kText, JStr(event.text)))>>)
           [] event.kind = "stop" -> Obj1(kType, JStr(sMessageStop))
           [] event.kind = "error" ->
                  JObj(<<JMember(kType, JStr(kError)),
                         JMember(kError, Obj1(kMessage, JStr(sOverloaded)))>>)
           [] OTHER -> Obj1(kType, JStr(sPing))
    ELSE CASE event.kind = "text" ->
                  Obj1(kChoices, JArr(<<Obj1(kDelta, Obj1(kContent, JStr(event.text)))>>))
           [] event.kind = "stop" ->
                  Obj1(kChoices, JArr(<<JObj(<<JMember(kDelta, JObj(<<>>)),
                                               JMember(kFinishReason, JStr(sStop))>>)>>))
           [] event.kind = "error" -> Obj1(kError, Obj1(kMessage, JStr(sOverloaded)))
           [] OTHER -> JLit("null")

\* the data line of an event and the blank line that ends the event
EventLines(api, event) ==
    DataPrefix
    \o (IF api = "openai" /\ event.kind = "other" THEN DoneMark
        ELSE Stringify(EventValue(api, event)))
    \o <<NL, NL>>

RECURSIVE WireText(_, _, _)
WireText(api, events, n) ==
    IF n = 0 THEN <<>> ELSE WireText(api, events, n - 1) \o EventLines(api, events[n])

\* the events of one chunk: none (the rest of a cut line only), one or two
ChunkEvents(before) ==
    {<<>>} \union {<<e>> : e \in NextEvents(before)}
    \union UNION {{<<e, f>> : f \in NextEvents(Append(before, e))} : e \in NextEvents(before)}

Responses ==
    {[ok |-> TRUE, status |-> 200, text |-> <<>>, body |-> TRUE],
     [ok |-> TRUE, status |-> 200, text |-> <<>>, body |-> FALSE],
     [ok |-> FALSE, status |-> 529, text |-> sOverloaded, body |-> TRUE],
     [ok |-> FALSE, status |-> 401, text |-> <<>>, body |-> FALSE]}

StreamInit ==
    /\ ParseIdle
    /\ HostEmpty
    /\ IndexIdle
    /\ RenderIdle
    /\ provider \in {"claude", "openai"}
    /\ response \in Responses
    /\ inFlight = <<>>
    /\ sent = <<>>
    /\ buffer = <<>>
    /\ fullText = <<>>
    /\ progress = <<>>
    /\ generation = [state |-> "idle"]
    /\ SessionIdle
    /\ PromptIdle
    /\ RoundTripIdle
    /\ ExtractIdle

\* fetch resolves
Fetch ==
    /\ generation.state = "idle"
    /\ generation' = CheckResponse(provider, response)
    /\ UNCHANGED <<parseVars, hostVars, cacheVars, lookup, renderVars, provider, response,
                   inFlight, sent, buffer, fullText, progress, sessionVars,
                   promptVars, roundTripVars, extractVars>>

\* reader.read() resolves with a chunk and the loop body runs to the next read
ReadChunk ==
    /\ generation.state = "reading"
    /\ \E events \in ChunkEvents(sent), cut \in BOOLEAN :
          LET text == WireText(provider, events, Len(events))
              half == Len(text) - (Len(EventLines(provider, events[Len(events)])) \div 2)
              value == inFlight \o (IF cut THEN SubSeq(text, 1, half) ELSE text)
          IN  /\ Len(sent) + Len(events) <= MaxEvents
              /\ cut => Len(events) > 0
              /\ value # <<>>
              /\ \E turn \in {StreamChunk(provider,
                                          [fullText |-> fullText, progress |-> progress,
                                           broke |-> FALSE],
                                          buffer, value)} :
                    /\ buffer' = turn.buffer
                    /\ fullText' = turn.fullText
                    /\ progress' = turn.progress
              /\ inFlight' = IF cut THEN SubSeq(text, half + 1, Len(text)) ELSE <<>>
              /\ sent' = sent \o events
    /\ UNCHANGED <<parseVars, hostVars, cacheVars, lookup, renderVars, provider, response,
                   generation, sessionVars,
                   promptVars, roundTripVars, extractVars>>

\* reader.read() resolves with done: line 158 of claude.ts, 148 of openai.ts
ReadDone ==
    /\ generation.state \in {"reading", "draining"}
    /\ inFlight = <<>>
    /\ \E outcome \in {parseDesignJson(fullText)} :
          /\ rawText' = fullText
          /\ parseOutcome' = outcome
          /\ generation' = IF outcome.kind = "returned"
                           THEN [state |-> "returned", design |-> outcome.value]
                           ELSE Failed(tParseError)
    /\ UNCHANGED <<srcValue, fenced, hostVars, cacheVars, lookup, renderVars, provider,
                   response, inFlight, sent, buffer, fullText, progress, sessionVars,
                   promptVars, roundTripVars, extractVars>>

StreamNext ==
    \/ Fetch
    \/ ReadChunk
    \/ ReadDone

SpecStream == StreamInit /\ [][StreamNext]_vars

\* reader.read() resolves with the last chunk of a body whose last line the
\* provider did not end with a newline; the next read is done
ReadTail ==
    /\ generation.state = "reading"
    /\ inFlight = <<>>
    /\ \E events \in ChunkEvents(sent) :
          LET text == WireText(provider, events, Len(events))
          IN  /\ Len(events) > 0
              /\ Len(sent) + Len(events) <= MaxEvents
              /\ \E turn \in {StreamChunk(provider,
                                          [fullText |-> fullText, progress |-> progress,
                                           broke |-> FALSE],
                                          buffer, SubSeq(text, 1, Len(text) - 2))} :
                    /\ buffer' = turn.buffer
                    /\ fullText' = turn.fullText
                    /\ progress' = turn.progress
              /\ sent' = sent \o events
    /\ generation' = [state |-> "draining"]
    /\ UNCHANGED <<parseVars, hostVars, cacheVars, lookup, renderVars, provider, response,
                   inFlight, sessionVars, promptVars, roundTripVars, extractVars>>

StreamTailNext ==
    \/ Fetch
    \/ ReadChunk
    \/ ReadTail
    \/ ReadDone

\* the bodies that end with a newline and the bodies that do not
SpecStreamTail == StreamInit /\ [][StreamTailNext]_vars

----------------------------------------------------------------------------
(* One session of the UI and the plugin: up to MaxAttempts submissions,    *)
(* each a generation call followed, when it returned a document, by a      *)
(* render in the plugin.  Messages are delivered in the order they were    *)
(* posted; a handler runs from one await to the next in one step.          *)

MaxAttempts == 2

\* the bodies a provider may send: the whole document, a part of it, an error
Bodies ==
    {<<TextEvent(Fragments[1]), TextEvent(Fragments[2]), StopEvent>>,
     <<TextEvent(Fragments[1]), OtherEvent>>,
     <<ErrorEvent>>}

\* the messages the UI posts when it mounts
MountMessages ==
    <<PluginMessage("load-settings"), PluginMessage("refresh-design-system"),
      PluginMessage("get-selection")>>

\* the plugin and the UI after they are mounted, whatever the page holds
SessionMounted ==
    /\ ParseIdle
    /\ HostEmpty
    /\ IndexIdle
    /\ RenderIdle
    /\ provider \in {"claude", "openai"}
    /\ response = NoResponse
    /\ inFlight = <<>>
    /\ sent = <<>>
    /\ buffer = <<>>
    /\ fullText = <<>>
    /\ progress = <<>>
    /\ generation = [state |-> "idle"]
    /\ isGenerating = FALSE
    /\ submits = <<>>
    /\ toPlugin = MountMessages
    /\ toUI = <<>>
    /\ handlers = {}
    /\ answers = <<>>
    /\ hostLog = <<>>
    /\ ui = UiIdle
    /\ PromptIdle
    /\ RoundTripIdle
    /\ ExtractIdle

SessionInit == SessionMounted /\ page = EmptyPage

sessionFrame ==
    <<parseVars, hostVars, cacheVars, lookup, renderVars, streamVars, promptVars, roundTripVars, extractVars>>

\* handleSubmit up to its await
Submit ==
    /\ ~SubmitDisabled(isGenerating)
    /\ Len(submits) < MaxAttempts
    /\ isGenerating' = TRUE
    /\ submits' = Append(submits, [at |-> "generating", existingDesign |-> ExistingDesign(ui),
                                   selected |-> page.selection])
    /\ answers' = Append(answers, <<>>)
    /\ ui' = [ui EXCEPT !.streaming = TRUE]
    /\ UNCHANGED <<sessionFrame, toPlugin, toUI, handlers, hostLog, page>>

\* the generation call settles and handleSubmit runs to its end
Generated ==
    \E i \in 1..Len(submits) :
        /\ submits[i].at = "generating"
        /\ \E resp \in Responses, events \in Bodies, abort \in {"never", "fetch", "read"} :
              \E outcome \in {generateDesign(provider, resp,
                                               WireText(provider, events, Len(events)),
                                               abort)} :
                  /\ submits' = [submits EXCEPT ![i] = Merge([at |-> "settled",
                                                                outcome |-> outcome], @)]
                  /\ toPlugin' = toPlugin \o Posted(outcome, i)
                  /\ isGenerating' = IF outcome.state = "returned" THEN isGenerating ELSE FALSE
                  /\ ui' = IF outcome.state = "returned" THEN ui
                            ELSE [ui EXCEPT !.streaming = FALSE]
        /\ UNCHANGED <<sessionFrame, toUI, handlers, answers, hostLog, page>>

\* figma.ui.onmessage, case 'render-design': handleRenderDesign up to the
\* first await of initializeCaches
DeliverRenderDesign ==
    /\ toPlugin # <<>>
    /\ Head(toPlugin).type = "render-design"
    /\ \E msg \in {Head(toPlugin)} :
          /\ toUI' = Append(toUI, GenerationStarted(msg.attempt))
          /\ answers' = [answers EXCEPT ![msg.attempt] = Append(@, "generation-started")]
          /\ hostLog' = Append(hostLog, [op |-> "initializeCaches", attempt |-> msg.attempt])
          /\ handlers' = handlers \union
                 {[type |-> "render-design", attempt |-> msg.attempt,
                   at |-> IF msg.design = JUndefined THEN "caches of nothing" ELSE "caches",
                   selection |-> page.selection,
                   replaceNode |-> ReplaceNode(page.selection)]}
    /\ toPlugin' = Tail(toPlugin)
    /\ UNCHANGED <<sessionFrame, isGenerating, submits, page, ui>>

\* the cases whose handlers send their answer without an await
DeliverSelectionRequest ==
    /\ toPlugin # <<>>
    /\ Head(toPlugin).type \in {"request-selection-data", "get-selection"}
    /\ toUI' = Append(toUI, IF Head(toPlugin).type = "get-selection"
                            THEN sendSelectionInfo(page.selection)
                            ELSE SelectionData(SerializedSelection(page.selection)))
    /\ toPlugin' = Tail(toPlugin)
    /\ UNCHANGED <<sessionFrame, isGenerating, submits, handlers, answers, hostLog, page, ui>>

\* the cases whose handlers await the host before they answer
DeliverSettingsRequest ==
    /\ toPlugin # <<>>
    /\ Head(toPlugin).type \in {"load-settings", "refresh-design-system"}
    /\ handlers' = handlers \union {Handler(Head(toPlugin).type, 0, "host")}
    /\ toPlugin' = Tail(toPlugin)
    /\ UNCHANGED <<sessionFrame, isGenerating, submits, toUI, answers, hostLog, page, ui>>

\* loadSettings and sendDesignSystem after their await
ResumeSettings ==
    \E h \in handlers :
        /\ h.type \in {"load-settings", "refresh-design-system"}
        /\ handlers' = handlers \ {h}
        /\ toUI' = Append(toUI, PluginMessage(IF h.type = "load-settings" THEN "settings-loaded"
                                              ELSE "design-system-loaded"))
        /\ UNCHANGED <<sessionFrame, isGenerating, submits, toPlugin, answers, hostLog, page, ui>>

\* renderDesign from the end of initializeCaches to the next await: the frame
\* is created, unless the document is not an object
ResumeCaches ==
    \E h \in handlers, threw \in BOOLEAN :
        /\ h.type = "render-design"
        /\ h.at \in {"caches", "caches of nothing"}
        /\ h.at = "caches of nothing" => threw
        /\ hostLog' = IF h.at = "caches"
                      THEN Append(hostLog, [op |-> "createFrame", attempt |-> h.attempt])
                      ELSE hostLog
        /\ page' = IF h.at = "caches"
                   THEN [page EXCEPT !.nodes = @ \union {RenderedFrame(h.attempt)}]
                   ELSE page
        /\ handlers' = IF threw THEN handlers \ {h}
                       ELSE (handlers \ {h}) \union {[h EXCEPT !.at = "drawing"]}
        /\ toUI' = IF threw THEN toUI \o Caught(h.attempt) ELSE toUI
        /\ answers' = IF threw
                      THEN [answers EXCEPT ![h.attempt] = @ \o Types(Caught(h.attempt))]
                      ELSE answers
        /\ UNCHANGED <<sessionFrame, isGenerating, submits, toPlugin, ui>>

\* renderDesign to its end and handleRenderDesign to its end
ResumeDrawing ==
    \E h \in handlers, threw \in BOOLEAN :
        /\ h.type = "render-design"
        /\ h.at = "drawing"
        /\ handlers' = handlers \ {h}
        /\ page' = [page EXCEPT !.nodes = Removed(@, h.replaceNode, threw),
                                !.selection = IF threw THEN @ ELSE <<RenderedFrame(h.attempt)>>]
        /\ \E said \in {IF threw THEN Caught(h.attempt)
                        ELSE <<GenerationComplete(h.attempt),
                               sendSelectionInfo(<<RenderedFrame(h.attempt)>>)>>} :
              /\ toUI' = toUI \o said
              /\ answers' = [answers EXCEPT ![h.attempt] =
                                 @ \o SelectSeq(Types(said), LAMBDA t : t # "selection-changed")]
        /\ hostLog' = IF threw THEN hostLog
                      ELSE Append(hostLog, [op |-> "select", attempt |-> h.attempt])
        /\ UNCHANGED <<sessionFrame, isGenerating, submits, toPlugin, ui>>

\* handleMessage of the UI
Receive ==
    /\ toUI # <<>>
    /\ toUI' = Tail(toUI)
    /\ isGenerating' = GeneratingAfter(Head(toUI), isGenerating)
    /\ ui' = UiAfter(Head(toUI), ui)
    /\ toPlugin' = IF Head(toUI).type = "selection-changed" /\ Head(toUI).selection # NullValue
                   THEN Append(toPlugin, PluginMessage("request-selection-data"))
                   ELSE toPlugin
    /\ UNCHANGED <<sessionFrame, submits, handlers, answers, hostLog, page>>

SessionNext ==
    \/ Submit
    \/ Generated
    \/ DeliverRenderDesign
    \/ DeliverSelectionRequest
    \/ DeliverSettingsRequest
    \/ ResumeSettings
    \/ ResumeCaches
    \/ ResumeDrawing
    \/ Receive

\* the host settles what a suspended render awaits
SpecSession ==
    SessionInit /\ [][SessionNext]_vars /\ WF_vars(ResumeCaches) /\ WF_vars(ResumeDrawing)

----------------------------------------------------------------------------
(* A session up to the settling of its generation calls, in which the     *)
(* user also changes the selection, up to MaxSelections times, on a page  *)
(* that holds two frames and a text.                                       *)

MaxSelections == 2

SelectionInit ==
    /\ SessionMounted
    /\ page = [EmptyPage EXCEPT !.nodes = {OldFrame, OtherFrame, OldText},
                                !.selection = <<OldFrame>>]

\* what the user may select
Selections == {<<>>, <<OldFrame>>, <<OtherFrame>>, <<OldText>>}

\* figma.on('selectionchange'): the user selects other nodes of the page
UserSelects ==
    /\ page.changes < MaxSelections
    /\ \E selection \in Selections :
          /\ selection # page.selection
          /\ \A k \in 1..Len(selection) : selection[k] \in page.nodes
          /\ page' = [page EXCEPT !.selection = selection, !.changes = @ + 1]
          /\ toUI' = Append(toUI, sendSelectionInfo(selection))
    /\ UNCHANGED <<sessionFrame, isGenerating, submits, toPlugin, handlers, answers, hostLog, ui>>

SelectionNext ==
    \/ UserSelects
    \/ Submit
    \/ DeliverSelectionRequest
    \/ DeliverSettingsRequest
    \/ ResumeSettings
    \/ Receive

SpecSelection == SelectionInit /\ [][SelectionNext]_vars

----------------------------------------------------------------------------
\* every step but the user's: the provider call returns or fails, the plugin
\* and the UI handle a message, the host settles what a handler awaits
Settles ==
    \/ Generated
    \/ DeliverRenderDesign
    \/ DeliverSelectionRequest
    \/ DeliverSettingsRequest
    \/ ResumeSettings
    \/ ResumeCaches
    \/ ResumeDrawing
    \/ Receive

\* the session does not stall while one of these steps is possible
SpecSessionLive == SessionInit /\ [][SessionNext]_vars /\ WF_vars(Settles)

----------------------------------------------------------------------------
(* One call of buildSystemPrompt, for snapshots of the design system with  *)
(* up to MaxTokens entries in each of the four categories.                 *)

MaxTokens == 1

nBackground == <<"B", "a", "c", "k", "g", "r", "o", "u", "n", "d", "/", "P", "r", "i", "m", "a", "r", "y">>
nSpacingMd == <<"S", "p", "a", "c", "i", "n", "g", "/", "m", "d">>
nBodyRegular == <<"B", "o", "d", "y", "/", "R", "e", "g", "u", "l", "a", "r">>
nButton == <<"B", "u", "t", "t", "o", "n">>
tDarkMode == <<"U", "s", "e", " ", "d", "a", "r", "k", " ", "m", "o", "d", "e">>

ColorVariables == <<[name |-> nBackground], [name |-> kText], [name |-> kError]>>
SpacingVariables ==
    <<[name |-> nSpacingMd, value |-> 16], [name |-> kContent, value |-> 8],
      [name |-> kDelta, value |-> 4]>>
PromptTextStyles == <<[name |-> nBodyRegular], [name |-> kMessage], [name |-> kName]>>
PromptComponents ==
    <<[name |-> nButton, key |-> sStop], [name |-> kChoices, key |-> sPing],
      [name |-> kType, key |-> kType]>>

NullDesignSystem ==
    [isNull |-> TRUE, colorVariables |-> <<>>, spacingVariables |-> <<>>,
     textStyles |-> <<>>, components |-> <<>>]

\* null, and the snapshots with the first 0..MaxTokens entries of every category
DesignSystems ==
    {NullDesignSystem}
    \union {[isNull |-> FALSE,
             colorVariables |-> SubSeq(ColorVariables, 1, c),
             spacingVariables |-> SubSeq(SpacingVariables, 1, p),
             textStyles |-> SubSeq(PromptTextStyles, 1, t),
             components |-> SubSeq(PromptComponents, 1, k)] :
               c \in 0..MaxTokens, p \in 0..MaxTokens, t \in 0..MaxTokens, k \in 0..MaxTokens}

\* no custom palette, one that changes the primary color, and one whose
\* background is written in the short form
Palettes ==
    {[given |-> FALSE],
     [given |-> TRUE, colors |-> [DEFAULT_COLOR_PALETTE EXCEPT !.primary = <<"#", "f", "f", "0", "0", "8", "0">>]],
     [given |-> TRUE, colors |-> [DEFAULT_COLOR_PALETTE EXCEPT !.background = <<"#", "F", "F", "F">>]]}

PromptViewports ==
    {[width |-> 375, height |-> 812, name |-> <<"M", "o", "b", "i", "l", "e">>],
     [width |-> 1440, height |-> 900, name |-> <<"D", "e", "s", "k", "t", "o", "p">>]}

PromptInit ==
    /\ ParseIdle
    /\ HostEmpty
    /\ IndexIdle
    /\ RenderIdle
    /\ StreamIdle
    /\ SessionIdle
    /\ RoundTripIdle
    /\ ExtractIdle
    /\ promptArgs \in [viewport : PromptViewports, designSystem : DesignSystems,
                       contextInstructions : {<<>>, <<" ", NL>>, tDarkMode},
                       customColors : Palettes]
    /\ systemPrompt = <<>>

BuildSystemPrompt ==
    /\ systemPrompt = <<>>
    /\ systemPrompt' = buildSystemPrompt(promptArgs.viewport, promptArgs.designSystem,
                                         promptArgs.contextInstructions,
                                         promptArgs.customColors)
    /\ UNCHANGED <<parseVars, hostVars, cacheVars, lookup, renderVars, streamVars, sessionVars,
                   promptArgs, roundTripVars, extractVars>>

SpecPrompt == PromptInit /\ [][BuildSystemPrompt]_vars

----------------------------------------------------------------------------
(* A document rendered, the rendered root selected and serialized, and the *)
(* serialized data rendered again as a document.  The host document is in  *)
(* one condition for both renders; the second render runs in the plugin    *)
(* session of the first, with the fonts the first one loaded.              *)

\* selectionData while nothing was serialized, in a host in condition fault
Unserialized(fault) == [status |-> "idle", host |-> fault]

RoundTripInit ==
    /\ ParseIdle
    /\ hostTextStyles = TextHostStyles
    /\ hostCollections = RenderCollections
    /\ IndexIdle
    /\ msgDesign \in Designs
    /\ msgViewport \in Viewports
    /\ rendered = NotRendered
    /\ loadedFonts = {}
    /\ hostFonts = {}
    /\ hostCalls = <<>>
    /\ StreamIdle /\ SessionIdle /\ PromptIdle /\ ExtractIdle
    /\ selectionData \in {Unserialized(fault) : fault \in RenderFaults}
    /\ rerendered = NotRendered

\* the host as renderDesign finds it
RoundTripHost ==
    [textStyles |-> hostTextStyles, collections |-> hostCollections,
     components |-> HostComponents, center |-> [x |-> 0, y |-> 0],
     faults |-> selectionData.host.faults, failedLoads |-> selectionData.host.failedLoads]

\* handleRenderDesign renders the document and selects the frame
RenderOriginal ==
    /\ rendered = NotRendered
    /\ \E done \in {renderDesign(msgDesign, msgViewport, RoundTripHost, NewWorld)} :
          /\ msgDesign' = done.design
          /\ rendered' = Outcome(done.threw, done.frame, msgDesign, selectionData.host.faults)
          /\ textStyleCache' = done.caches.textStyles
          /\ colorVariableCache' = done.caches.colors
          /\ spacingVariableCache' = done.caches.spacing
          /\ loadedFonts' = done.world.loadedFonts
          /\ hostFonts' = done.world.hostFonts
          /\ hostCalls' = done.world.calls
    /\ UNCHANGED <<parseVars, hostVars, lookup, msgViewport, pipelineVars>>

\* handleRequestSelectionData with the rendered frame as the selection
SerializeSelection ==
    /\ rendered.status = "returned"
    /\ selectionData.status = "idle"
    /\ selectionData' = [status |-> "serialized", host |-> selectionData.host,
                         data |-> serializeSelection(<<rendered.frame>>)]
    /\ UNCHANGED <<parseVars, hostVars, cacheVars, lookup, renderVars, streamVars, sessionVars,
                   promptVars, rerendered, extractVars>>

\* the serialized selection, sent back as the design of a render-design message
RenderSerialized ==
    /\ selectionData.status = "serialized"
    /\ rerendered = NotRendered
    /\ \E done \in {renderDesign(selectionData.data, msgViewport, RoundTripHost,
                                 [loadedFonts |-> loadedFonts, hostFonts |-> hostFonts,
                                  calls |-> hostCalls])} :
          /\ rerendered' = Outcome(done.threw, done.frame, selectionData.data,
                                   selectionData.host.faults)
          /\ textStyleCache' = done.caches.textStyles
          /\ colorVariableCache' = done.caches.colors
          /\ spacingVariableCache' = done.caches.spacing
          /\ loadedFonts' = done.world.loadedFonts
          /\ hostFonts' = done.world.hostFonts
          /\ hostCalls' = done.world.calls
    /\ UNCHANGED <<parseVars, hostVars, lookup, msgDesign, msgViewport, rendered, streamVars,
                   sessionVars, promptVars, selectionData, extractVars>>

RoundTripNext == RenderOriginal \/ SerializeSelection \/ RenderSerialized

SpecRoundTrip == RoundTripInit /\ [][RoundTripNext]_vars

----------------------------------------------------------------------------
(* One call of resolveColorValue, resolveNumberValue or                    *)
(* resolveSpacingVariable against a host document whose variables form one *)
(* alias chain of up to MaxChain variables: the chain ends in a value, in  *)
(* the id of a variable that does not exist, or in an alias back into the  *)
(* chain.  A call moves from one host lookup to the next.                  *)

MaxChain == 12

\* the name of the i-th variable of the chain
nChained(i) == <<"v">> \o NatToDigits(i)

IdOf(type, name) == <<type, ":">> \o name

ConcreteValue(type) == IF type = "COLOR" THEN ColorValue(Red) ELSE NumberValue(24)

\* what the last variable of a chain of k holds
ChainEnds(type, k) ==
    {ConcreteValue(type), AliasValue(IdOf(type, nMissing)),
     AliasValue(IdOf(type, nChained(1))), AliasValue(IdOf(type, nChained(k)))}

AliasChain(type, k, end) ==
    <<[name |-> <<"S">>,
       variables |-> [i \in 1..k |->
                         Variable(type, nChained(i),
                                  IF i < k THEN AliasValue(IdOf(type, nChained(i + 1)))
                                  ELSE end)]]>>

AliasInit ==
    /\ ParseIdle
    /\ hostTextStyles = <<>>
    /\ \E type \in {"COLOR", "FLOAT"}, k \in 1..MaxChain :
          \E end \in ChainEnds(type, k) :
              \E built \in {initializeCaches(<<>>, AliasChain(type, k, end), NoFaults)} :
                  /\ hostCollections = AliasChain(type, k, end)
                  /\ textStyleCache = built.textStyles
                  /\ colorVariableCache = built.colors
                  /\ spacingVariableCache = built.spacing
    /\ lookup = NoLookup
    /\ RenderIdle
    /\ StreamIdle /\ SessionIdle /\ PromptIdle /\ RoundTripIdle
    /\ resolving = NotResolving
    /\ extracted = NotExtracted

aliasFrame ==
    <<parseVars, hostVars, cacheVars, lookup, renderVars, streamVars, sessionVars, promptVars,
      roundTripVars, extracted>>

\* the locals of a call before its loop
Started(fn, variable) ==
    [fn |-> fn, variable |-> variable, value |-> FirstModeValue(variable), depth |-> 0,
     status |-> "loop"]

\* extractVariables reaches a COLOR variable
ResolveColorValue ==
    /\ resolving.status = "idle"
    /\ \E variable \in HostVariables(hostCollections) :
          /\ variable.resolvedType = "COLOR"
          /\ resolving' = Started("resolveColorValue", variable)
    /\ UNCHANGED aliasFrame

\* extractVariables reaches a FLOAT variable
ResolveNumberValue ==
    /\ resolving.status = "idle"
    /\ \E variable \in HostVariables(hostCollections) :
          /\ variable.resolvedType = "FLOAT"
          /\ resolving' = Started("resolveNumberValue", variable)
    /\ UNCHANGED aliasFrame

\* the renderer resolves a paddingVariable or an itemSpacingVariable
ResolveSpacingVariable ==
    /\ resolving.status = "idle"
    /\ \E name \in {nChained(1), nChained(2), nChained(MaxChain), nMissing} :
          \E variable \in {findSpacingVariable(spacingVariableCache, name)} :
              resolving' = IF variable = NullValue
                           THEN [fn |-> "resolveSpacingVariable", variable |-> NullValue,
                                 value |-> UndefinedValue, depth |-> 0, status |-> "done",
                                 result |-> NullValue]
                           ELSE Started("resolveSpacingVariable", variable)
    /\ UNCHANGED aliasFrame

\* one turn of the loop: the aliased variable is looked up and read, or the
\* loop is left because it does not exist
FollowAliasStep ==
    /\ resolving.status = "loop"
    /\ AliasLoopRuns(resolving.value, resolving.depth)
    /\ \E aliasedVar \in {getVariableById(hostCollections, resolving.value.id)} :
          resolving' = IF aliasedVar = NullValue
                       THEN [resolving EXCEPT !.status = "broke"]
                       ELSE [resolving EXCEPT !.value = FirstModeValue(aliasedVar),
                                              !.depth = @ + 1]
    /\ UNCHANGED aliasFrame

\* after the loop: the value is returned if it is of the type asked for
ReturnResolved ==
    /\ \/ resolving.status = "broke"
       \/ /\ resolving.status = "loop"
          /\ ~AliasLoopRuns(resolving.value, resolving.depth)
    /\ resolving' = Set(Set(resolving, "status", "done"), "result",
                        IF resolving.fn = "resolveColorValue" THEN AsRGB(resolving.value)
                        ELSE AsNumber(resolving.value))
    /\ UNCHANGED aliasFrame

AliasNext ==
    \/ ResolveColorValue
    \/ ResolveNumberValue
    \/ ResolveSpacingVariable
    \/ FollowAliasStep
    \/ ReturnResolved

\* a host lookup that a call waits for is answered
SpecAlias ==
    AliasInit /\ [][AliasNext]_vars /\ WF_vars(FollowAliasStep) /\ WF_vars(ReturnResolved)

----------------------------------------------------------------------------
(* extractVariables against a host document with a collection of concrete  *)
(* variables and a collection of variables that are aliases, resolvable or *)
(* not, or carry a semantic name, the two collections in either order.     *)

nPrimitives == <<"P", "r", "i", "m", "i", "t", "i", "v", "e", "s">>
nMisc == <<"M", "i", "s", "c">>
nTokens == <<"T", "o", "k", "e", "n", "s">>
nSemantic == <<"S", "e", "m", "a", "n", "t", "i", "c">>
nBrandTokens == <<"B", "r", "a", "n", "d", " ", "T", "o", "k", "e", "n", "s">>
nBlue500 == <<"B", "l", "u", "e", "/", "5", "0", "0">>
nSpace8 == <<"S", "p", "a", "c", "e", "/", "8">>
nAccentColor == <<"A", "c", "c", "e", "n", "t">>
nLink == <<"L", "i", "n", "k">>
nTextBody == <<"T", "e", "x", "t", "/", "B", "o", "d", "y">>
nGapMd == <<"G", "a", "p", "/", "m", "d">>
nInset == <<"I", "n", "s", "e", "t">>

ConcreteVariables ==
    <<Variable("COLOR", nBlue500, ColorValue(Blue)), Variable("FLOAT", nSpace8, NumberValue(8))>>

OtherVariables ==
    <<Variable("COLOR", nAccentColor, AliasValue(IdOf("COLOR", nBlue500))),
      Variable("COLOR", nLink, AliasValue(IdOf("COLOR", nMissing))),
      Variable("COLOR", nTextBody, ColorValue(Gray)),
      Variable("FLOAT", nGapMd, AliasValue(IdOf("FLOAT", nSpace8))),
      Variable("FLOAT", nInset, AliasValue(IdOf("FLOAT", nMissing)))>>

\* the members of list whose index is in kept, in the order of list
RECURSIVE Kept(_, _, _)
Kept(list, kept, n) ==
    IF n = 0 THEN <<>>
    ELSE IF n \in kept THEN Append(Kept(list, kept, n - 1), list[n])
    ELSE Kept(list, kept, n - 1)

SubLists(list) == {Kept(list, kept, Len(list)) : kept \in SUBSET (1..Len(list))}

ExtractHosts ==
    LET concrete == {[name |-> name, variables |-> variables] :
                        name \in {nPrimitives, nMisc}, variables \in SubLists(ConcreteVariables)}
        other == {[name |-> name, variables |-> variables] :
                     name \in {nTokens, nSemantic, nBrandTokens},
                     variables \in SubLists(OtherVariables)}
    IN  {<<a, b>> : a \in concrete, b \in other} \union {<<b, a>> : a \in concrete, b \in other}

ExtractInit ==
    /\ ParseIdle
    /\ hostTextStyles = <<>>
    /\ hostCollections \in ExtractHosts
    /\ IndexIdle
    /\ RenderIdle
    /\ StreamIdle /\ SessionIdle /\ PromptIdle /\ RoundTripIdle
    /\ resolving = NotResolving
    /\ extracted = NotExtracted

\* extractDesignSystem calls extractVariables; a host call may throw after
\* any number of variables was read
ExtractVariables ==
    /\ extracted = NotExtracted
    /\ \E reads \in 0..Len(VariablesRead(hostCollections, Len(hostCollections))) :
          extracted' = [status |-> "returned", reads |-> reads,
                        variables |-> extractVariables(hostCollections, reads)]
    /\ UNCHANGED <<parseVars, hostVars, cacheVars, lookup, renderVars, streamVars, sessionVars,
                   promptVars, roundTripVars, resolving>>

SpecExtract == ExtractInit /\ [][ExtractVariables]_vars

----------------------------------------------------------------------------
(* Claims about the Document Parser & Repair.                              *)

IsPrefix(p, d) == Len(p) <= Len(d) /\ SubSeq(d, 1, Len(p)) = p

\* p holds leading fields of d: the same keys and items in the same order, all
\* equal to d's except that the last one may itself be a leading part (a cut
\* string counts as a leading part of the string it was cut from)
RECURSIVE LeadingPart(_, _)
LeadingPart(p, d) ==
    /\ p.t = d.t
    /\ CASE p.t = "obj" ->
              /\ Len(p.m) <= Len(d.m)
              /\ \A i \in 1..Len(p.m) :
                    /\ p.m[i].k = d.m[i].k
                    /\ IF i < Len(p.m) THEN p.m[i].v = d.m[i].v
                       ELSE LeadingPart(p.m[i].v, d.m[i].v)
         [] p.t = "arr" ->
              /\ Len(p.a) <= Len(d.a)
              /\ \A i \in 1..Len(p.a) :
                    IF i < Len(p.a) THEN p.a[i] = d.a[i]
                    ELSE LeadingPart(p.a[i], d.a[i])
         [] p.t = "str" -> IsPrefix(p.s, d.s)
         [] OTHER -> p = d

Parsed == parseOutcome # NotParsed

\* C1: for every design document D and prefix length k, parseDesignJson on the
\* first k characters of stringify(D) returns a document whose leading fields
\* match D's or throws the parse error, and nothing else.
RepairCorrectness ==
    (Parsed /\ ~fenced /\ srcValue \in DesignValues) =>
        \/ parseOutcome.kind = "returned" /\ LeadingPart(parseOutcome.value, srcValue)
        \/ parseOutcome.kind = "threw" /\ parseOutcome.error = "ParseError"

\* C2: the text of the truncated-stream scenario is repaired by closing the
\* string, the array and the object, and parseDesignJson returns the document
\* named X with one TEXT child.
ScenarioRepairs ==
    (Parsed /\ rawText = ScenarioText) =>
        /\ repairTruncatedJson(ExtractJsonText(rawText)) = ScenarioRepaired
        /\ parseOutcome.kind = "returned"
        /\ parseOutcome.value = JsonParse(ScenarioRepaired).val

LacksNameAndChildren(v) == ~HasKey(v, kName) /\ ~HasKey(v, kChildren)

StrictParse == JsonParse(ExtractJsonText(rawText))
RepairParse == JsonParse(repairTruncatedJson(ExtractJsonText(rawText)))

\* C3: every returned value has a name or a children field; valid JSON that
\* lacks both, from the strict parse or from the parse after repair, is never
\* returned and ends in the parse error.
NameOrChildrenRequired ==
    /\ parseOutcome.kind = "returned" => ~LacksNameAndChildren(parseOutcome.value)
    /\ (Parsed /\ StrictParse.ok /\ LacksNameAndChildren(StrictParse.val)) =>
            parseOutcome = Threw("ParseError")
    /\ (Parsed /\ ~StrictParse.ok /\ RepairParse.ok /\ LacksNameAndChildren(RepairParse.val)) =>
            parseOutcome = Threw("ParseError")

\* a cut text whose repair parses to an object with neither field was rejected
RepairedButRejected ==
    /\ parseOutcome = Threw("ParseError")
    /\ ~StrictParse.ok
    /\ RepairParse.ok
    /\ IsObj(RepairParse.val)
    /\ LacksNameAndChildren(RepairParse.val)
    /\ Len(RepairParse.val.m) > 0

----------------------------------------------------------------------------
(* Claims about the Variable/Token Index.                                  *)

\* the rank of a key for a name: 1 exact, 2 equal ignoring case, 3 one contains
\* the other ignoring case, 4 no match
MatchRank(key, name) ==
    IF key = name THEN 1
    ELSE IF ToLowerCase(key) = ToLowerCase(name) THEN 2
    ELSE IF \/ Includes(ToLowerCase(key), ToLowerCase(name))
            \/ Includes(ToLowerCase(name), ToLowerCase(key)) THEN 3
    ELSE 4

KeyIndex(map, key) == CHOOSE i \in 1..Len(map.entries) : map.entries[i].key = key

\* hit is what the documented order finds for name in map
InLookupOrder(map, name, hit) ==
    IF hit.found
    THEN /\ MapHas(map, hit.key)
         /\ MatchRank(hit.key, name) < 4
         /\ \A i \in 1..Len(map.entries) :
               LET other == map.entries[i].key
               IN  \/ MatchRank(other, name) > MatchRank(hit.key, name)
                   \/ /\ MatchRank(other, name) = MatchRank(hit.key, name)
                      /\ KeyIndex(map, hit.key) <= i
    ELSE \A i \in 1..Len(map.entries) : MatchRank(map.entries[i].key, name) = 4

CacheOf(fn) ==
    CASE fn = "findTextStyle" -> textStyleCache
      [] fn = "findColorVariable" -> colorVariableCache
      [] fn = "findSpacingVariable" -> spacingVariableCache

\* C6: findTextStyle, findColorVariable and findSpacingVariable match exactly,
\* then case-insensitively, then by substring in either direction, the first
\* match in that order winning whatever the insertion order of the keys; the
\* reference "body" finds the style "Typography/Body/Regular".
LookupOrder ==
    (lookup.fn # "none" /\ CacheOf(lookup.fn).ready) =>
        /\ InLookupOrder(CacheOf(lookup.fn), lookup.name, lookup.result)
        /\ ( /\ lookup.fn = "findTextStyle"
             /\ lookup.name = nBody
             /\ MapHas(textStyleCache, nTypographyBodyRegular) )
           => ( /\ lookup.result.found
                /\ MapGet(textStyleCache, lookup.result.key).name = nTypographyBodyRegular )

\* the same order, of the two functions that implement it
LookupOrderOfStylesAndColors ==
    (lookup.fn \in {"findTextStyle", "findColorVariable"} /\ CacheOf(lookup.fn).ready) =>
        InLookupOrder(CacheOf(lookup.fn), lookup.name, lookup.result)

----------------------------------------------------------------------------
(* Claims about the Resolver/Renderer.                                     *)

\* an element of the document with the node rendered from it, for every node
\* of the tree
RECURSIVE Pairs(_, _)
Pairs(props, node) ==
    {<<props, node>>} \union
    IF node.type = "FRAME" /\ Has(props, "children")
    THEN UNION {Pairs(props.children[i], node.children[i]) : i \in 1..Len(node.children)}
    ELSE {}

RenderedPairs ==
    IF rendered.status = "returned" THEN Pairs(msgDesign, rendered.frame) ELSE {}

\* the children's pairs: every node but the root
InnerPairs ==
    IF rendered.status = "returned"
    THEN RenderedPairs \ {<<msgDesign, rendered.frame>>}
    ELSE {}

StateEnvironment == CachedEnvironment(NoFaults, {})

\* the colour the host shows for a stored value: the end of its alias chain
RECURSIVE HostColor(_, _)
HostColor(value, depth) ==
    IF value.kind = "alias" /\ depth < MaxAliasDepth
    THEN HostColor(FirstModeValue(getVariableById(hostCollections, value.id)), depth + 1)
    ELSE value

NamedColor(name) ==
    HostColor(FirstModeValue(findColorVariable(colorVariableCache, name)), 0).color

\* the colour a rendered paint shows
PaintColor(paint) ==
    IF Has(paint, "boundVariable")
    THEN HostColor(FirstModeValue(getVariableById(hostCollections, paint.boundVariable)),
                   0).color
    ELSE IF Has(paint, "color") THEN paint.color
    ELSE UndefinedValue

\* a fill or stroke with a named reference found in the index and a literal
NamedAndLiteral(paint) ==
    /\ TruthyName(paint, "colorVariable")
    /\ findColorVariable(colorVariableCache, paint.colorVariable) # NullValue
    /\ Has(paint, "color")
    /\ ~(Has(paint, "visible") /\ paint.visible = FALSE)

\* C4: a fill or stroke with a resolvable named colour and a literal colour is
\* rendered with the colour of the named variable, never the literal; stated
\* for the elements with one fill or one stroke.
TokenPrecedence ==
    \A pair \in RenderedPairs :
        LET props == pair[1]
            node == pair[2]
        IN  /\ ( /\ Has(props, "fills")
                 /\ Len(props.fills) = 1
                 /\ NamedAndLiteral(props.fills[1]) )
               => /\ Len(node.fills) > 0
                  /\ PaintColor(node.fills[Len(node.fills)])
                         = NamedColor(props.fills[1].colorVariable)
            /\ ( /\ Has(props, "strokes")
                 /\ Len(props.strokes) = 1
                 /\ NamedAndLiteral(props.strokes[1]) )
               => /\ Len(node.strokes) = 1
                  /\ PaintColor(node.strokes[1]) = NamedColor(props.strokes[1].colorVariable)

\* the same, of the named variables that store a colour and not an alias
TokenPrecedenceOfStoredColors ==
    \A pair \in RenderedPairs :
        LET props == pair[1]
            node == pair[2]
            Stored(paint) ==
                /\ NamedAndLiteral(paint)
                /\ FirstModeValue(findColorVariable(colorVariableCache,
                                                    paint.colorVariable)).kind = "color"
        IN  /\ (Has(props, "fills") /\ Len(props.fills) = 1 /\ Stored(props.fills[1]))
               => /\ Len(node.fills) > 0
                  /\ PaintColor(node.fills[Len(node.fills)])
                         = NamedColor(props.fills[1].colorVariable)
            /\ (Has(props, "strokes") /\ Len(props.strokes) = 1 /\ Stored(props.strokes[1]))
               => /\ Len(node.strokes) = 1
                  /\ PaintColor(node.strokes[1]) = NamedColor(props.strokes[1].colorVariable)

AutoLayout(props) == TruthyStr(props, "layoutMode") /\ props.layoutMode # "NONE"

\* C5: when paddingVariable or itemSpacingVariable is present but does not
\* resolve and the literal padding or itemSpacing is present too, the literal is
\* applied to the frame (the second tier of the resolution order).
SpacingFallsBackToLiteral ==
    \A pair \in RenderedPairs :
        LET props == pair[1]
            node == pair[2]
        IN  (node.type = "FRAME" /\ AutoLayout(props)) =>
                /\ ( /\ TruthyName(props, "itemSpacingVariable")
                     /\ ~resolveSpacingVariable(props.itemSpacingVariable,
                                                StateEnvironment).resolved
                     /\ Has(props, "itemSpacing") )
                   => /\ Has(node, "itemSpacing")
                      /\ node.itemSpacing = props.itemSpacing
                /\ ( /\ TruthyName(props, "paddingVariable")
                     /\ ~resolveSpacingVariable(props.paddingVariable,
                                                StateEnvironment).resolved
                     /\ Has(props, "padding") )
                   => /\ Has(node, "paddingTop")
                      /\ node.paddingTop = props.padding.top
                      /\ node.paddingRight = props.padding.right
                      /\ node.paddingBottom = props.padding.bottom
                      /\ node.paddingLeft = props.padding.left

\* C7: for every node with layoutMode HORIZONTAL or VERTICAL both sizing modes
\* are assigned on the frame whatever the document declares, and an undeclared
\* mode is assigned AUTO; stated for the frames below the root.
SizingModesAssigned ==
    \A pair \in InnerPairs :
        LET props == pair[1]
            node == pair[2]
        IN  (node.type = "FRAME" /\ AutoLayout(props)) =>
                \A field \in {"primaryAxisSizingMode", "counterAxisSizingMode"} :
                    /\ Has(node, field)
                    /\ ~TruthyStr(props, field) => node[field] = "AUTO"

\* the same, of the declared modes HUG, FIXED and FILL and of undeclared modes
SizingModesAssignedWhenKnown ==
    \A pair \in InnerPairs :
        LET props == pair[1]
            node == pair[2]
        IN  (node.type = "FRAME" /\ AutoLayout(props)) =>
                \A field \in {"primaryAxisSizingMode", "counterAxisSizingMode"} :
                    (TruthyStr(props, field) => props[field] \in {"HUG", "FIXED", "FILL"})
                    => /\ Has(node, field)
                       /\ ~TruthyStr(props, field) => node[field] = "AUTO"

\* C8: the frame renderDesign returns has an auto-layout mode, VERTICAL when
\* the document declared none or NONE, both sizing modes FIXED, and the width
\* and height of the viewport, whatever the document declared.
RootMatchesViewport ==
    rendered.status = "returned" =>
        /\ Has(rendered.frame, "layoutMode")
        /\ rendered.frame.layoutMode \in {"HORIZONTAL", "VERTICAL"}
        /\ ~AutoLayout(rendered.input) => rendered.frame.layoutMode = "VERTICAL"
        /\ rendered.frame.primaryAxisSizingMode = "FIXED"
        /\ rendered.frame.counterAxisSizingMode = "FIXED"
        /\ rendered.frame.width = msgViewport.width
        /\ rendered.frame.height = msgViewport.height

\* a document that declared another size, a hugging axis and no auto-layout
RootDeclaredOtherwise ==
    /\ rendered.status = "returned"
    /\ Has(rendered.input, "width")
    /\ rendered.input.width # msgViewport.width
    /\ Has(rendered.input, "layoutMode")
    /\ rendered.input.layoutMode = "NONE"
    /\ Has(rendered.input, "primaryAxisSizingMode")
    /\ rendered.input.primaryAxisSizingMode = "HUG"
    /\ rendered.frame.primaryAxisSizingMode = "FIXED"

ValidCounterAxis == {"MIN", "MAX", "CENTER", "BASELINE"}

Coerced(value) == IF value \in ValidCounterAxis THEN value ELSE "CENTER"

----------------------------------------------------------------------------
(* Claims about text rendering.                                            *)

\* the fonts the host had loaded when the i-th call of the log was made
LoadedBefore(before, calls, i) ==
    before \union {calls[j].font : j \in {k \in 1..(i - 1) :
                                             calls[k].op = "loadFontAsync" /\ calls[k].ok}}

\* C10: in every renderText, on every path and whichever loads fail, the
\* characters are assigned only after a load of the font the node then has
\* has succeeded, and never after loads that all failed.
FontLoadedBeforeCharacters ==
    [][\A i \in 1..Len(hostCalls') :
          hostCalls'[i].op = "characters" =>
              /\ hostCalls'[i].font \in LoadedBefore(hostFonts, hostCalls', i)
              /\ \E j \in 1..(i - 1) : hostCalls'[j].op = "loadFontAsync" /\ hostCalls'[j].ok]_vars

\* the three loads of loadFont failed and the characters were assigned
CharactersAfterFailedChain ==
    /\ rendered.status = "returned"
    /\ Len(hostCalls) = 5
    /\ \A j \in 2..4 : hostCalls[j].op = "loadFontAsync" /\ ~hostCalls[j].ok
    /\ hostCalls[5].op = "characters"
    /\ hostCalls[5].font = InterRegular
    /\ Has(rendered.frame, "characters")

----------------------------------------------------------------------------
(* Claims about component instances.                                       *)

\* the kind of node renderElement makes for an element
KindOf(element, env) ==
    IF element.type \in {"TEXT", "RECTANGLE", "ELLIPSE", "LINE"} THEN element.type
    ELSE IF /\ element.type = "INSTANCE"
            /\ TruthyStr(element, "componentKey")
            /\ Importable(env, element.componentKey)
    THEN "INSTANCE"
    ELSE "FRAME"

\* an INSTANCE element without a key, or with a key the host cannot import
Unresolvable(element, env) ==
    /\ element.type = "INSTANCE"
    /\ ~TruthyStr(element, "componentKey") \/ ~Importable(env, element.componentKey)

RenderEnvironment ==
    [StateEnvironment EXCEPT !.faults = rendered.faults]

ChildrenOf(props) == IF Has(props, "children") THEN props.children ELSE <<>>

\* C11: an INSTANCE element with no componentKey, or whose component cannot be
\* imported, is rendered as a frame whose children are the element's children
\* rendered in the same order, and a render is rejected only for a font that
\* fails to load, never for the failed lookup.
InstanceFallsBackToFrame ==
    /\ \A pair \in InnerPairs :
          LET props == pair[1]
              node == pair[2]
          IN  Unresolvable(props, RenderEnvironment) =>
                  /\ node.type = "FRAME"
                  /\ Len(node.children) = Len(ChildrenOf(props))
                  /\ \A i \in 1..Len(node.children) :
                        node.children[i].type =
                            KindOf(props.children[i], RenderEnvironment)
    /\ rendered.status = "threw" =>
          \E i \in 1..Len(hostCalls) : hostCalls[i].op = "loadFontAsync" /\ ~hostCalls[i].ok

\* an instance with an unknown key became a frame with its three children of
\* three kinds, in order
UnknownComponentAsFrame ==
    \E pair \in InnerPairs :
        /\ pair[1].type = "INSTANCE"
        /\ TruthyStr(pair[1], "componentKey")
        /\ Unresolvable(pair[1], RenderEnvironment)
        /\ pair[2].type = "FRAME"
        /\ Len(pair[2].children) = 3
        /\ pair[2].children[1].type = "RECTANGLE"
        /\ pair[2].children[3].type = "LINE"

----------------------------------------------------------------------------
(* Claims about the provider adapters.                                     *)

\* the events whose lines the adapter has received whole
Arrived == IF inFlight = <<>> THEN sent ELSE SubSeq(sent, 1, Len(sent) - 1)

\* the events before the first stop event
BeforeStop(events) ==
    IF \E i \in 1..Len(events) : events[i].kind = "stop"
    THEN SubSeq(events, 1,
                (CHOOSE i \in 1..Len(events) :
                    /\ events[i].kind = "stop"
                    /\ \A j \in 1..(i - 1) : events[j].kind # "stop") - 1)
    ELSE events

NonEmpty(texts) == SelectSeq(texts, LAMBDA t : t # <<>>)

RECURSIVE Joined(_, _)
Joined(texts, n) == IF n = 0 THEN <<>> ELSE Joined(texts, n - 1) \o texts[n]

\* the cumulative texts: the first, the first two joined, ...
Cumulative(texts) == [i \in 1..Len(texts) |-> Joined(texts, i)]

LastOr(values, none) == IF values = <<>> THEN none ELSE values[Len(values)]

ErrorEventAborts ==
    (provider = "claude" /\ \E i \in 1..Len(Arrived) : Arrived[i].kind = "error") =>
        /\ generation.state = "failed"
        /\ generation.message = sOverloaded
        /\ parseOutcome = NotParsed

\* C19: a response with a non-success status fails the call with an error
\* that carries the status code and the body text, a successful response
\* without a body fails it with the no-body error, and in both cases nothing
\* is read, reported or parsed.
ProviderErrorFailsTheCall ==
    (generation.state # "idle" /\ (~response.ok \/ ~response.body)) =>
        /\ generation.state = "failed"
        /\ IF ~response.ok
           THEN /\ Includes(generation.message, NatToDigits(response.status))
                /\ Includes(generation.message, response.text)
           ELSE generation.message = tNoResponseBody
        /\ sent = <<>>
        /\ progress = <<>>
        /\ parseOutcome = NotParsed

\* the call failed on status 529 with the body text in its error
OverloadedResponseFailed ==
    /\ generation.state = "failed"
    /\ response.status = 529
    /\ Includes(generation.message, sOverloaded)

\* C20: the callback is called for no fragment that arrives after a stop
\* event, in the same chunk or in a later one.
StopEndsTheStream ==
    Len(progress) <= Len(NonEmpty(TextsOf(BeforeStop(sent), Len(BeforeStop(sent)))))

\* C26: the text the adapter has accumulated when the body ends is the text
\* deltas of the data lines the transport delivered before the stop event,
\* joined in order, however the body was cut into chunks and whether or not
\* its last line ends with a newline.
AccumulatedTextIsTheDeltas ==
    (parseOutcome # NotParsed /\ inFlight = <<>>) =>
        rawText = Joined(TextsOf(BeforeStop(sent), Len(BeforeStop(sent))),
                         Len(TextsOf(BeforeStop(sent), Len(BeforeStop(sent)))))

----------------------------------------------------------------------------
(* Claims about the session of the UI and the plugin.                      *)

Settled(i) == i \in 1..Len(submits) /\ submits[i].at = "settled"

ReturnedBy(i) == Settled(i) /\ submits[i].outcome.state = "returned"

Handling(i) == \E h \in handlers : h.type = "render-design" /\ h.attempt = i

Touched(i) ==
    \/ answers[i] # <<>>
    \/ Handling(i)
    \/ \E k \in 1..Len(hostLog) : hostLog[k].attempt = i

\* C14: a render-design message is posted only once the generation call has
\* returned a parsed document, and it carries that document; a submission
\* whose generation was cancelled or failed (provider or parse) posts no
\* render-design message, and no render touches the caches or the page for it.
RenderOnlyAfterParsedDocument ==
    /\ \A k \in 1..Len(toPlugin) :
          toPlugin[k].type = "render-design" =>
              /\ ReturnedBy(toPlugin[k].attempt)
              /\ toPlugin[k].design = submits[toPlugin[k].attempt].outcome.design
    /\ \A i \in 1..Len(submits) : Touched(i) => ReturnedBy(i)

\* one submission was cancelled and left nothing behind, another one returned
\* a document and its render created the frame
CancelledThenRendered ==
    \E i, j \in 1..Len(submits) :
        /\ Settled(i)
        /\ submits[i].outcome = Failed(tAborted)
        /\ ~Touched(i)
        /\ ReturnedBy(j)
        /\ \E k \in 1..Len(hostLog) : hostLog[k] = [op |-> "createFrame", attempt |-> j]

Terminals == {"generation-complete", "error"}

AnsweredInOrder ==
    /\ \A i \in 1..Len(answers) :
          \/ answers[i] = <<>> /\ ~Handling(i)
          \/ answers[i] = <<"generation-started">> /\ Handling(i)
          \/ /\ ~Handling(i)
             /\ Len(answers[i]) = 2
             /\ answers[i][1] = "generation-started"
             /\ answers[i][2] \in Terminals
    /\ \A k \in 1..Len(toUI) :
          /\ toUI[k].type = "generation-complete" => toUI[k].success
          /\ toUI[k].type = "error" => toUI[k].message # ""

Answered(i) == i \in 1..Len(answers) /\ Len(answers[i]) = 2

\* C15: the plugin answers a render-design request with generation-started
\* and then, when the render has ended or thrown, with exactly one of
\* generation-complete (success true) and error (with a message); a request
\* that was started is eventually answered.
RenderAnsweredExactlyOnce ==
    /\ []AnsweredInOrder
    /\ \A i \in 1..MaxAttempts : (Handling(i) ~> Answered(i))

\* one render ended with generation-complete and another one threw after it
\* had created its frame
OneCompleteOneError ==
    \E i, j \in 1..Len(answers) :
        /\ answers[i] = <<"generation-started", "generation-complete">>
        /\ answers[j] = <<"generation-started", "error">>
        /\ \E k \in 1..Len(hostLog) : hostLog[k] = [op |-> "createFrame", attempt |-> j]

Renders == {h \in handlers : h.type = "render-design"}

\* C16: at most one renderDesign is between its start and its end at any
\* time: the UI posts a render-design message only while its submit controls
\* are disabled, and enables them again on the terminal message of the render,
\* so that no render-design message reaches the plugin, and no
\* initializeCaches runs, while an earlier render is suspended at an await,
\* whatever other messages are handled in between.
OneRenderAtATime ==
    /\ Cardinality(Renders) <= 1
    /\ \A k \in 1..Len(toPlugin) : toPlugin[k].type = "render-design" => Renders = {}

\* the second render is suspended at an await while the request for the
\* selection data that the first render caused is still to be handled
SecondRenderAmongOtherMessages ==
    /\ \E h \in Renders : h.attempt = 2 /\ h.at = "drawing"
    /\ Len(answers) = 2 /\ Len(answers[1]) = 2
    /\ \E k \in 1..Len(toPlugin) : toPlugin[k].type = "request-selection-data"

----------------------------------------------------------------------------
(* Claims about the Prompt Builder.                                        *)

\* sub occurs in text
Contains(text, sub) ==
    \E i \in 0..(Len(text) - Len(sub)) : SubSeq(text, i + 1, i + Len(sub)) = sub

\* a text interpolated into the prompt contains sub
Mentions(prompt, sub) ==
    \E k \in 1..Len(prompt) : \E v \in 1..Len(prompt[k].values) :
        Contains(prompt[k].values[v], sub)

\* the lines of the template that make the use of tokens mandatory
TokenMandates ==
    {"## DESIGN SYSTEM TOKENS - MANDATORY USAGE",
     "This file has semantic design tokens. You MUST use these tokens by name - NEVER use raw values.",
     "### COLOR TOKENS - USE \"colorVariable\" ONLY (MANDATORY)",
     "You MUST use these exact token names for ALL colors. Raw RGB/hex values are NOT allowed.",
     "### SPACING TOKENS - USE \"paddingVariable\" and \"itemSpacingVariable\" (MANDATORY)",
     "You MUST use these exact token names for ALL spacing. Raw numbers are NOT allowed.",
     "### TEXT STYLES - USE \"textStyleName\" (REQUIRED)",
     "## STRICT TOKEN RULES - FOLLOW EXACTLY",
     "1. COLORS: Use \"colorVariable\" with token name - NEVER raw RGB values",
     "2. TEXT: Use \"textStyleName\" - NEVER fontSize/fontFamily/fontWeight",
     "3. SPACING: Use \"paddingVariable\"/\"itemSpacingVariable\" - NEVER raw numbers",
     "8. ALWAYS use design tokens - colorVariable, paddingVariable, itemSpacingVariable, textStyleName"}

NoSnapshot == ~hasDesignSystem(promptArgs.designSystem)

FallbackPalette ==
    IF promptArgs.customColors.given THEN promptArgs.customColors.colors
    ELSE DEFAULT_COLOR_PALETTE

\* C17: without a design-system snapshot (null, or empty in all four
\* categories) the prompt contains the hex string of every color of the
\* fallback palette and no line that makes the use of tokens mandatory.
PaletteModeWithoutTokenMandate ==
    (systemPrompt # <<>> /\ NoSnapshot) =>
        /\ \A c \in DOMAIN FallbackPalette : Mentions(systemPrompt, FallbackPalette[c])
        /\ \A k \in 1..Len(systemPrompt) : systemPrompt[k].text \notin TokenMandates

----------------------------------------------------------------------------
(* Claims about the selection serializer.                                  *)

RECURSIVE Shape(_)
\* the kind of a node and, in order, the shapes of its children
Shape(node) ==
    [type |-> node.type,
     children |-> [i \in 1..Len(node.children) |-> Shape(node.children[i])]]

\* C18: once a document was rendered, its root serialized by the selection
\* serializer and the serialized document rendered again in the same host,
\* the second render returns a tree with the same node kind at every position
\* and the same number of children at every level as the first
RoundTripKeepsStructure ==
    rerendered.status # "idle" =>
        /\ rerendered.status = "returned"
        /\ Shape(rerendered.frame) = Shape(rendered.frame)

\* a root with an instance of a component went round
InstanceWentRound ==
    /\ rerendered.status = "returned"
    /\ \E i \in 1..Len(rendered.frame.children) : rendered.frame.children[i].type = "INSTANCE"

----------------------------------------------------------------------------
(* Claims about the design-system extraction.                              *)

\* where the alias chain that starts at value ends, whatever its length:
\* seen holds the ids followed so far
RECURSIVE ChainEnd(_, _)
ChainEnd(value, seen) ==
    IF value.kind # "alias" THEN [kind |-> "value", value |-> value, hops |-> Cardinality(seen)]
    ELSE IF value.id \in seen THEN [kind |-> "cyclic"]
    ELSE IF getVariableById(hostCollections, value.id) = NullValue THEN [kind |-> "missing"]
    ELSE ChainEnd(FirstModeValue(getVariableById(hostCollections, value.id)),
                  seen \union {value.id})

\* what a call on variable must return
TerminalValue(variable) ==
    IF variable = NullValue THEN NullValue
    ELSE LET end == ChainEnd(FirstModeValue(variable), {})
         IN  IF end.kind = "value" /\ end.hops <= MaxAliasDepth THEN end.value
             ELSE NullValue

ResolvedWithinBound ==
    resolving.status # "idle" =>
        /\ resolving.depth <= MaxAliasDepth
        /\ resolving.status = "done" =>
              /\ resolving.result = TerminalValue(resolving.variable)
              /\ resolving.result # NullValue => resolving.result.kind \in {"color", "number"}

\* C21: a call of resolveColorValue, resolveNumberValue or
\* resolveSpacingVariable follows at most 10 aliases and returns; it returns
\* the concrete value at the end of the chain when the chain reaches one
\* within 10 aliases, and null (never an alias) when the chain is cyclic,
\* longer, or leads to a variable that does not exist
AliasResolutionTerminates ==
    /\ []ResolvedWithinBound
    /\ (resolving.status \in {"loop", "broke"}) ~> (resolving.status = "done")

\* a call gave up on a chain after ten aliases
GaveUpAtTheBound ==
    /\ resolving.status = "done"
    /\ resolving.depth = MaxAliasDepth
    /\ resolving.result = NullValue

Categories == {"COLOR", "FLOAT"}

ExposedOf(category) ==
    IF category = "COLOR" THEN extracted.variables.colorVariables
    ELSE extracted.variables.spacingVariables

HostRead == VariablesRead(hostCollections, Len(hostCollections))

\* the variables of a category that extractVariables classifies as tokens,
\* by their place in the host document
TokensOf(category) ==
    {k \in 1..Len(HostRead) :
        /\ HostRead[k].variable.resolvedType = category
        /\ IsToken(HostRead[k].collection, HostRead[k].variable)}

OnlyTokens(list) == \A i \in 1..Len(list) : list[i].isToken

\* C22: in each of the colour and spacing categories, if a variable of the
\* host document is classified as a token, the exposed list holds no
\* primitive
PrimitivesExcludedWhenTokensExist ==
    extracted.status = "returned" =>
        \A category \in Categories :
            TokensOf(category) # {} => OnlyTokens(ExposedOf(category))

----------------------------------------------------------------------------
(* Claims about what a render leaves behind.                               *)

\* C23: after renderDesign has returned or thrown, every field of the
\* document it was given equals its value before the call
DesignReadOnly ==
    rendered.status # "idle" => msgDesign = rendered.input

----------------------------------------------------------------------------
(* Claims about what a session does to the page and to the UI's state.     *)

\* the handler of a render-design message ends in its catch block
Throws(h) ==
    /\ h.type = "render-design"
    /\ h \in handlers
    /\ h \notin handlers'
    /\ answers'[h.attempt] = Append(answers[h.attempt], "error")

ReplaceNodeKept ==
    \A h \in handlers :
        (h.type = "render-design" /\ h.replaceNode # NullValue) => h.replaceNode \in page.nodes

ThrowLeavesSelection ==
    \A h \in handlers :
        Throws(h) =>
            /\ h.replaceNode # NullValue => h.replaceNode \in page'.nodes
            /\ page'.selection = h.selection
            /\ Len(toUI') = Len(toUI) + 1
            /\ toUI'[Len(toUI')].type = "error"
            /\ \A k \in 1..Len(answers'[h.attempt]) :
                   answers'[h.attempt][k] # "generation-complete"

\* C28: the node that was selected when handleRenderDesign started is removed
\* only once renderDesign has returned: it stays in the page while the render
\* is suspended, and when renderDesign throws the node is still in the page,
\* the page's selection is the one the handler read, and the handler sends
\* error and no generation-complete.
RemovedOnlyAfterRender == []ReplaceNodeKept /\ [][ThrowLeavesSelection]_vars

\* the second render was to replace the frame of the first and threw, and the
\* frame of the first is still there and still selected
ThrewOverSelectedFrame ==
    /\ Len(answers) = 2
    /\ answers[2] = <<"generation-started", "error">>
    /\ \E k \in 1..Len(hostLog) : hostLog[k] = [op |-> "createFrame", attempt |-> 2]
    /\ handlers = {}
    /\ RenderedFrame(1) \in page.nodes
    /\ page.selection = <<RenderedFrame(1)>>

\* C30: once a submit has set isGenerating, the flag is cleared and the
\* streaming message is finalized, whichever way the generation and the
\* render end, provided the provider call settles and messages are handled.
GeneratingEnds == (isGenerating \/ ui.streaming) ~> (~isGenerating /\ ~ui.streaming)

\* a rendered submit and a submit whose generation failed, both over
CompleteThenFailedBothCleared ==
    /\ Len(submits) = 2
    /\ answers[1] = <<"generation-started", "generation-complete">>
    /\ submits[2].at = "settled"
    /\ submits[2].outcome.state # "returned"
    /\ ~isGenerating
    /\ ~ui.streaming

\* C29: the existing design a submit sends is the serialization of the
\* node that is selected in the page at that moment, and there is none when
\* nothing is selected.
ExistingDesignOfSelection ==
    \A i \in 1..Len(submits) :
        submits[i].existingDesign = IF submits[i].selected = <<>> THEN JUndefined
                                    ELSE SerializedSelection(submits[i].selected)

----------------------------------------------------------------------------
(* Claims about references that do not resolve and about paints.           *)

FontLoadFailed == \E i \in 1..Len(hostCalls) : hostCalls[i].op = "loadFontAsync" /\ ~hostCalls[i].ok

\* the node has a child for every child of its element, of the kind of that
\* child, down the tree; an instance of a component has the component's own
NodeForEveryElement(pair) ==
    /\ pair[2].type = KindOf(Merge(pair[1], [type |-> OrElse(pair[1], "type", "FRAME")]),
                             RenderEnvironment)
    /\ pair[2].type = "FRAME" => Len(pair[2].children) = Len(ChildrenOf(pair[1]))

\* C24: a reference by name that does not resolve (colorVariable,
\* paddingVariable, itemSpacingVariable, textStyleName, componentKey) never
\* aborts the render: unless a font cannot be loaded, renderDesign returns,
\* with a node for every element of the document.
UnresolvedReferenceNeverAborts ==
    (rendered.status # "idle" /\ ~FontLoadFailed) =>
        /\ rendered.status = "returned"
        /\ \A pair \in Pairs(rendered.input, rendered.frame) : NodeForEveryElement(pair)

\* the frame with five dangling references was rendered, with its text and
\* with a frame for its instance, with the host's caches empty or not
DanglingRendered ==
    /\ rendered.status = "returned"
    /\ rendered.input = [name |-> "Screen", children |-> <<Dangling>>]
    /\ Len(rendered.frame.children) = 1
    /\ Len(rendered.frame.children[1].children) = 2
    /\ rendered.frame.children[1].children[1].type = "TEXT"
    /\ ~Has(rendered.frame.children[1].children[1], "textStyleId")
    /\ rendered.frame.children[1].children[2].type = "FRAME"
    /\ \A i \in 1..Len(rendered.frame.children[1].fills) :
           ~Has(rendered.frame.children[1].fills[i], "boundVariable")

Invisible(entry) == Has(entry, "visible") /\ entry.visible = FALSE

\* the paint is what the fill or stroke entry converts to: its literal
\* colour, its variable bound, or its variable's colour
PaintOf(entry, paint) ==
    \/ Has(entry, "color") /\ Has(paint, "color") /\ paint.color = toRGB(entry.color)
    \/ /\ TruthyName(entry, "colorVariable")
       /\ \E variable \in {findColorVariable(colorVariableCache, entry.colorVariable)} :
             /\ variable # NullValue
             /\ \/ Has(paint, "boundVariable") /\ paint.boundVariable = variable.id
                \/ /\ FirstModeValue(variable).kind = "color"
                   /\ Has(paint, "color")
                   /\ paint.color = toRGB(FirstModeValue(variable).color)

\* no entry of the list that is shown has the colour or the variable of entry i
PaintOfItsOwn(list, i) ==
    \A j \in 1..Len(list) :
        (j # i /\ ~Invisible(list[j])) =>
            /\ OrElse(list[j], "color", NullValue) # OrElse(list[i], "color", NullValue)
            /\ OrElse(list[j], "colorVariable", <<>>) # OrElse(list[i], "colorVariable", <<>>)

InvisiblePaintsDropped(props, node, field) ==
    Has(props, field) =>
        \A i \in 1..Len(props[field]) :
            (Invisible(props[field][i]) /\ PaintOfItsOwn(props[field], i)) =>
                \A k \in 1..Len(node[field]) : ~PaintOf(props[field][i], node[field][k])

InvisibleEffectsDropped(props, node) ==
    Has(props, "effects") =>
        \A i \in 1..Len(props.effects) :
            (/\ Invisible(props.effects[i])
             /\ \A j \in 1..Len(props.effects) :
                   ~Invisible(props.effects[j]) => props.effects[j].type # props.effects[i].type)
            => \A k \in 1..Len(node.effects) : node.effects[k].type # props.effects[i].type

\* C25: an entry of fills, strokes or effects whose visible flag is false
\* leaves no paint or effect on the rendered node, with or without a
\* colorVariable.
InvisibleEntriesDropped ==
    rendered.status = "returned" =>
        \A pair \in Pairs(rendered.input, rendered.frame) :
            /\ InvisiblePaintsDropped(pair[1], pair[2], "fills")
            /\ InvisiblePaintsDropped(pair[1], pair[2], "strokes")
            /\ InvisibleEffectsDropped(pair[1], pair[2])

\* the colour variable the entry names, when the cache has it
VariableOf(entry) ==
    IF TruthyName(entry, "colorVariable")
    THEN findColorVariable(colorVariableCache, entry.colorVariable)
    ELSE NullValue

\* an entry that is shown and gives a paint: its variable, its colour or its gradient
Resolvable(entry) ==
    ~Invisible(entry) /\ (VariableOf(entry) # NullValue \/ LiteralFill(entry) # NullValue)

\* the paint of the entry: bound to its variable when the variable resolved
\* and the host accepted the binding, otherwise the literal paint
PaintAsListed(entry, paint) ==
    IF VariableOf(entry) # NullValue /\ ~rendered.faults.bind
    THEN Has(paint, "boundVariable") /\ paint.boundVariable = VariableOf(entry).id
    ELSE IF VariableOf(entry) # NullValue
    THEN Has(paint, "color")
    ELSE paint = LiteralFill(entry)

FillsAsListed(fills, paints) ==
    LET shown == SelectSeq(fills, Resolvable)
    IN  Len(shown) > 0 =>
            /\ Len(paints) = Len(shown)
            /\ \A k \in 1..Len(shown) : PaintAsListed(shown[k], paints[k])

\* C27: the fills of a rendered node are one paint for every entry of the
\* element's fills that is visible and resolves, in the order of the list,
\* and an entry whose colorVariable resolved is bound to that variable, also
\* when the list holds a literal colour or a gradient as well.
FillsOnePaintPerEntry ==
    rendered.status = "returned" =>
        \A pair \in Pairs(rendered.input, rendered.frame) :
            Has(pair[1], "fills") => FillsAsListed(pair[1].fills, pair[2].fills)

=============================================================================
